---- MODULE Spec2Model ----
(***************************************************************************)
(* A model of the PROV API harvester (prov-api-harvest.py): the transport  *)
(* with its bounded retry, the rate governor, the output file manager, the *)
(* pagination loop and the plain and series-batch harvest drivers.         *)
(***************************************************************************)
EXTENDS Integers, Sequences, FiniteSets, TLC

(***************************************************************************)
(* Bounds of the model (not program constants).                            *)
(***************************************************************************)
\* largest numFound a response reports
MaxTotal == 3
\* largest number of docs in one response
MaxDocs == 2
\* most records the server hands out during one run
MaxRecords == 3
\* largest --wait value tried by the rate-governor specification
MaxWait == 3
\* largest page size and largest numFound of the lowercase-tag scan
MaxLcDocs == 1
MaxLcTotal == 2
\* facet parsing on its own: series ids 1..MaxFacetSeries, each in a facet
\* dimension with a count of 1..MaxFacetCount or not at all
MaxFacetSeries == 2
MaxFacetCount == 2
\* return of a batch pass on its own: the last numFound is within
\* MaxNoteGap of the estimate, and the pass has yielded up to MaxNoteExtra
\* records more than the last numFound
MaxNoteGap == 13
MaxNoteExtra == 1
\* statistics: longest input array
MaxStream == 2
\* planner on its own: series ids 1..MaxSeries, counts 0..MaxCount, record
\* caps 1..MaxCap, series caps 1..MaxSeriesCap
MaxSeries == 3
MaxCount == 3
MaxCap == 3
MaxSeriesCap == 2

(***************************************************************************)
(* Program constants.                                                      *)
(***************************************************************************)
MAX_CONSECUTIVE_FAILURES == 6
BASE_WAIT_TIME == 63
\* headers.get('x-ratelimit-remaining-minute', 20): the default, and the
\* threshold of `remaining < 20`
RATE_LIMIT_DEFAULT == 20
RATE_LIMIT_THRESHOLD == 20
\* time.sleep(2)
RATE_LIMIT_EXTRA_SLEEP == 2
\* float('inf'), the initial total_docs; larger than every offset
INF == -1

\* sys.int_info.default_max_str_digits: int() of a str with more digits
\* raises ValueError
MAX_STR_DIGITS == 4300

(***************************************************************************)
(* Python text <-> number conversions.  A decimal string is the sequence   *)
(* of its digits.                                                          *)
(***************************************************************************)
RECURSIVE PyStr(_)
PyStr(n) == IF n < 10 THEN <<n>> ELSE PyStr(n \div 10) \o <<n % 10>>

RECURSIVE PyInt(_)
PyInt(s) ==
    IF Len(s) = 1 THEN s[1]
    ELSE 10 * PyInt(SubSeq(s, 1, Len(s) - 1)) + s[Len(s)]

\* start < total_docs, where total_docs may be float('inf')
Less(a, b) == IF b = INF THEN TRUE ELSE a < b

RECURSIVE SumSeq(_)
SumSeq(s) == IF s = <<>> THEN 0 ELSE s[1] + SumSeq(Tail(s))

(***************************************************************************)
(* The output file: a sequence of written chunks.                          *)
(***************************************************************************)
LB == <<"[">>
RB == <<"]">>
SEP == <<",\n">>
\* json.dumps(doc, ensure_ascii=False).encode(); a doc is <<query, batch, position>>
Dumps(doc) == <<"json">> \o doc

Absent == [exists |-> FALSE, data |-> <<>>]
FileOf(chunks) == [exists |-> TRUE, data |-> chunks]

\* "[" + the serialisations joined by ",\n"
RECURSIVE Joined(_)
Joined(ds) ==
    IF ds = <<>> THEN <<>>
    ELSE IF Len(ds) = 1 THEN <<Dumps(ds[1])>>
    ELSE <<Dumps(ds[1]), SEP>> \o Joined(Tail(ds))

(***************************************************************************)
(* Batch planner.                                                          *)
(***************************************************************************)
\* --series-max unset (None)
NoMax == 0

\* dict assignment d[k] = v
Put(d, k, v) == [x \in (DOMAIN d) \cup {k} |-> IF x = k THEN v ELSE d[x]]

\* mutant: the counts of the two facet dimensions are added
Max2_Sum(a, b) == a + b

\* max(a, b)
Max2(a, b) == IF a >= b THEN a ELSE b

\* A facet value is <<letters, digits>>: "123" is <<"", <<1,2,3>>>> and
\* "VPRS12" is <<"VPRS", <<1,2>>>>.  A facet list is a sequence of
\* <<value, count>> pairs.
IsDigit(v) == v[1] = "" /\ v[2] # <<>>
IsUpperParent(v) == v[1] = "VPRS" /\ v[2] # <<>>

RECURSIVE ParseSeriesFacets(_, _)
ParseSeriesFacets(facets, acc) ==
    IF facets = <<>> THEN acc
    ELSE LET v == facets[1][1]
             count == facets[1][2]
         IN  ParseSeriesFacets(Tail(facets),
                 IF IsDigit(v) THEN Put(acc, PyInt(v[2]), count) ELSE acc)

RECURSIVE ParseParentsFacets(_, _)
ParseParentsFacets(facets, acc) ==
    IF facets = <<>> THEN acc
    ELSE LET v == facets[1][1]
             count == facets[1][2]
             sid == PyInt(v[2])
         IN  ParseParentsFacets(Tail(facets),
                 IF IsUpperParent(v)
                 THEN IF sid \in DOMAIN acc
                      THEN Put(acc, sid, Max2(acc[sid], count))
                      ELSE Put(acc, sid, count)
                 ELSE acc)

InSeriesRange(sid, min_series, max_series) ==
    min_series <= sid /\ (max_series = NoMax \/ sid <= max_series)

\* get_series_estimated_counts, from the facet response on
EstimatedCounts(series_facets, parents_facets, min_series, max_series) ==
    LET all_series_counts ==
            ParseParentsFacets(parents_facets,
                               ParseSeriesFacets(series_facets, <<>>))
    IN  IF min_series > 1 \/ max_series # NoMax
        THEN [sid \in {x \in DOMAIN all_series_counts :
                          InSeriesRange(x, min_series, max_series)}
                 |-> all_series_counts[sid]]
        ELSE all_series_counts

\* sorted(series_counts.items()): the ids in ascending order
RECURSIVE SortedIds(_)
SortedIds(S) ==
    IF S = {} THEN <<>>
    ELSE LET m == CHOOSE x \in S : \A y \in S : x <= y
         IN  <<m>> \o SortedIds(S \ {m})

\* mutant: the record cap is not looked at when a series joins a batch
MustFlush_NoRecordCap(current_batch, current_count, record_count, caps) ==
    current_batch # <<>> /\ Len(current_batch) >= caps[2]

\* mutant: the series cap is tested with > instead of >=
MustFlush_OneMore(current_batch, current_count, record_count, caps) ==
    /\ current_batch # <<>>
    /\ (current_count + record_count > caps[1]
        \/ Len(current_batch) > caps[2])

\* mutant: a series that brings the sum exactly to the cap closes the batch
MustFlush_TieCloses(current_batch, current_count, record_count, caps) ==
    /\ current_batch # <<>>
    /\ (current_count + record_count >= caps[1]
        \/ Len(current_batch) >= caps[2])

\* `if current_batch and (current_count + record_count > max_per_batch or
\* len(current_batch) >= max_series_per_batch)`; caps is the pair of caps
MustFlush(current_batch, current_count, record_count, caps) ==
    /\ current_batch # <<>>
    /\ (current_count + record_count > caps[1]
        \/ Len(current_batch) >= caps[2])

\* mutant: the batch being built when the loop ends is forgotten
FlushBatch_Dropped(batches, current_batch) == batches

\* `if current_batch: batches.append(current_batch)`
FlushBatch(batches, current_batch) ==
    IF current_batch # <<>> THEN Append(batches, current_batch) ELSE batches

RECURSIVE BatchLoop(_, _, _, _, _, _, _)
BatchLoop(sorted_series, series_counts_, i, batches, current_batch, current_count, caps) ==
    IF ~(i <= Len(sorted_series))
    THEN FlushBatch(batches, current_batch)
    ELSE LET series_id == sorted_series[i]
             record_count == series_counts_[series_id]
         IN  IF record_count > caps[1]
             THEN BatchLoop(sorted_series, series_counts_, i + 1,
                      (IF current_batch # <<>>
                       THEN Append(batches, current_batch)
                       ELSE batches) \o << <<series_id>> >>,
                      <<>>, 0, caps)
             ELSE IF MustFlush(current_batch, current_count, record_count, caps)
             THEN BatchLoop(sorted_series, series_counts_, i + 1,
                      Append(batches, current_batch),
                      <<series_id>>, record_count, caps)
             ELSE BatchLoop(sorted_series, series_counts_, i + 1, batches,
                      Append(current_batch, series_id),
                      current_count + record_count, caps)

create_optimal_batches_from_counts(series_counts_, max_per_batch, max_series_per_batch) ==
    BatchLoop(SortedIds(DOMAIN series_counts_), series_counts_, 1, <<>>,
              <<>>, 0, <<max_per_batch, max_series_per_batch>>)

\* sum(series_counts.get(sid, 0) for sid in series_batch)
RECURSIVE get_batch_result_count_from_counts(_, _)
get_batch_result_count_from_counts(series_batch, series_counts_) ==
    IF series_batch = <<>> THEN 0
    ELSE (IF series_batch[1] \in DOMAIN series_counts_
          THEN series_counts_[series_batch[1]] ELSE 0)
         + get_batch_result_count_from_counts(Tail(series_batch),
                                              series_counts_)

(***************************************************************************)
(* Rate governor.                                                          *)
(***************************************************************************)
\* A response's headers: the value of x-ratelimit-remaining-minute, a
\* decimal string, or NoHeader when the header is absent.
NoHeader == <<>>

\* int(headers.get('x-ratelimit-remaining-minute', 20))
Remaining(hdrs) == IF hdrs = NoHeader THEN RATE_LIMIT_DEFAULT ELSE PyInt(hdrs)

\* mutant: the extra sleep is taken at the threshold too
check_rate_limit_Inclusive(hdrs, wait_time) ==
    <<wait_time>> \o
    (IF Remaining(hdrs) <= RATE_LIMIT_THRESHOLD
     THEN <<RATE_LIMIT_EXTRA_SLEEP>> ELSE <<>>)

\* check_rate_limit: the sleeps it takes, in order
check_rate_limit(hdrs, wait_time) ==
    <<wait_time>> \o
    (IF Remaining(hdrs) < RATE_LIMIT_THRESHOLD
     THEN <<RATE_LIMIT_EXTRA_SLEEP>> ELSE <<>>)

(***************************************************************************)
(* Statistics: process_object and print_stats_json of prov-harvest-stats.  *)
(***************************************************************************)
\* A record of the input array has one entry per key the code reads: <<>>
\* when the key is absent, <<v>> when it is present with value v.  Texts
\* that the code takes apart (identifiers, ids) are sequences of characters.
\* agencies_ids and agencies_titles are the arrays themselves, <<>> when
\* absent (obj.get(..., [])).
Has(obj, key) == obj[key] # <<>>

\* the keys of stats['series']: a series id, 'Unknown', or None
IdKey(digits) == <<"id", digits>>
UnknownKey == <<"Unknown", <<>>>>
NoneKey == <<"None", <<>>>>

\* Counter: c[k] += 1 and c.update(d)
Inc(c, k) == IF k \in DOMAIN c THEN [c EXCEPT ![k] = @ + 1] ELSE Put(c, k, 1)

CounterUpdate(c, d) ==
    [k \in (DOMAIN c) \cup (DOMAIN d) |->
        (IF k \in DOMAIN c THEN c[k] ELSE 0)
        + (IF k \in DOMAIN d THEN d[k] ELSE 0)]

\* the defaultdict factories and the initial stats
NewSeries ==
    [agencies |-> {}, consignments |-> 0, iiif_manifests |-> 0, images |-> 0,
     items |-> 0, related_entities |-> 0, title |-> "", units |-> 0,
     years |-> <<>>]

NewAgency ==
    [title |-> "", consignments |-> 0, iiif_manifests |-> 0, images |-> 0,
     items |-> 0, series |-> {}, units |-> 0, years |-> <<>>]

\* agency_order is the order of the keys of stats['agencies'], a dict: the
\* order in which they were first put in
EmptyStats ==
    [category |-> <<>>, series |-> <<>>, agencies |-> <<>>, year |-> <<>>,
     iiif_manifests |-> 0, objects |-> 0, related_entities |-> 0, units |-> 0,
     agency_order |-> <<>>]

\* stats['series'][sid] and stats['agencies'][aid]: the entry, made if new
SeriesOf(st, sid) ==
    IF sid \in DOMAIN st.series THEN st.series[sid] ELSE NewSeries

AgencyOf(st, aid) ==
    IF aid \in DOMAIN st.agencies THEN st.agencies[aid] ELSE NewAgency

\* the order of the keys of stats['agencies'] once aid is a key: a new key
\* goes last
Ordered(st, aid) ==
    IF aid \in DOMAIN st.agencies THEN st.agency_order
    ELSE Append(st.agency_order, aid)

\* str.replace(' ', '')
RECURSIVE RemoveSpaces(_)
RemoveSpaces(s) ==
    IF s = <<>> THEN <<>>
    ELSE (IF s[1] = " " THEN <<>> ELSE <<s[1]>>) \o RemoveSpaces(Tail(s))

\* the decimal digits (category Nd of Unicode 15.0 and 15.1, the character
\* data of Python 3.12 and 3.13, the first versions that read the f-strings
\* of the program), which are the characters \d matches in a str pattern
\* and the digits int() reads; they come in runs of ten, each in the order
\* 0..9, and a digit outside ASCII is named by its code point
DigitBlocks ==
    <<
      <<"0", "1", "2", "3", "4", "5", "6", "7", "8", "9">>,
      <<"U+0660", "U+0661", "U+0662", "U+0663", "U+0664",
        "U+0665", "U+0666", "U+0667", "U+0668", "U+0669">>,
      <<"U+06F0", "U+06F1", "U+06F2", "U+06F3", "U+06F4",
        "U+06F5", "U+06F6", "U+06F7", "U+06F8", "U+06F9">>,
      <<"U+07C0", "U+07C1", "U+07C2", "U+07C3", "U+07C4",
        "U+07C5", "U+07C6", "U+07C7", "U+07C8", "U+07C9">>,
      <<"U+0966", "U+0967", "U+0968", "U+0969", "U+096A",
        "U+096B", "U+096C", "U+096D", "U+096E", "U+096F">>,
      <<"U+09E6", "U+09E7", "U+09E8", "U+09E9", "U+09EA",
        "U+09EB", "U+09EC", "U+09ED", "U+09EE", "U+09EF">>,
      <<"U+0A66", "U+0A67", "U+0A68", "U+0A69", "U+0A6A",
        "U+0A6B", "U+0A6C", "U+0A6D", "U+0A6E", "U+0A6F">>,
      <<"U+0AE6", "U+0AE7", "U+0AE8", "U+0AE9", "U+0AEA",
        "U+0AEB", "U+0AEC", "U+0AED", "U+0AEE", "U+0AEF">>,
      <<"U+0B66", "U+0B67", "U+0B68", "U+0B69", "U+0B6A",
        "U+0B6B", "U+0B6C", "U+0B6D", "U+0B6E", "U+0B6F">>,
      <<"U+0BE6", "U+0BE7", "U+0BE8", "U+0BE9", "U+0BEA",
        "U+0BEB", "U+0BEC", "U+0BED", "U+0BEE", "U+0BEF">>,
      <<"U+0C66", "U+0C67", "U+0C68", "U+0C69", "U+0C6A",
        "U+0C6B", "U+0C6C", "U+0C6D", "U+0C6E", "U+0C6F">>,
      <<"U+0CE6", "U+0CE7", "U+0CE8", "U+0CE9", "U+0CEA",
        "U+0CEB", "U+0CEC", "U+0CED", "U+0CEE", "U+0CEF">>,
      <<"U+0D66", "U+0D67", "U+0D68", "U+0D69", "U+0D6A",
        "U+0D6B", "U+0D6C", "U+0D6D", "U+0D6E", "U+0D6F">>,
      <<"U+0DE6", "U+0DE7", "U+0DE8", "U+0DE9", "U+0DEA",
        "U+0DEB", "U+0DEC", "U+0DED", "U+0DEE", "U+0DEF">>,
      <<"U+0E50", "U+0E51", "U+0E52", "U+0E53", "U+0E54",
        "U+0E55", "U+0E56", "U+0E57", "U+0E58", "U+0E59">>,
      <<"U+0ED0", "U+0ED1", "U+0ED2", "U+0ED3", "U+0ED4",
        "U+0ED5", "U+0ED6", "U+0ED7", "U+0ED8", "U+0ED9">>,
      <<"U+0F20", "U+0F21", "U+0F22", "U+0F23", "U+0F24",
        "U+0F25", "U+0F26", "U+0F27", "U+0F28", "U+0F29">>,
      <<"U+1040", "U+1041", "U+1042", "U+1043", "U+1044",
        "U+1045", "U+1046", "U+1047", "U+1048", "U+1049">>,
      <<"U+1090", "U+1091", "U+1092", "U+1093", "U+1094",
        "U+1095", "U+1096", "U+1097", "U+1098", "U+1099">>,
      <<"U+17E0", "U+17E1", "U+17E2", "U+17E3", "U+17E4",
        "U+17E5", "U+17E6", "U+17E7", "U+17E8", "U+17E9">>,
      <<"U+1810", "U+1811", "U+1812", "U+1813", "U+1814",
        "U+1815", "U+1816", "U+1817", "U+1818", "U+1819">>,
      <<"U+1946", "U+1947", "U+1948", "U+1949", "U+194A",
        "U+194B", "U+194C", "U+194D", "U+194E", "U+194F">>,
      <<"U+19D0", "U+19D1", "U+19D2", "U+19D3", "U+19D4",
        "U+19D5", "U+19D6", "U+19D7", "U+19D8", "U+19D9">>,
      <<"U+1A80", "U+1A81", "U+1A82", "U+1A83", "U+1A84",
        "U+1A85", "U+1A86", "U+1A87", "U+1A88", "U+1A89">>,
      <<"U+1A90", "U+1A91", "U+1A92", "U+1A93", "U+1A94",
        "U+1A95", "U+1A96", "U+1A97", "U+1A98", "U+1A99">>,
      <<"U+1B50", "U+1B51", "U+1B52", "U+1B53", "U+1B54",
        "U+1B55", "U+1B56", "U+1B57", "U+1B58", "U+1B59">>,
      <<"U+1BB0", "U+1BB1", "U+1BB2", "U+1BB3", "U+1BB4",
        "U+1BB5", "U+1BB6", "U+1BB7", "U+1BB8", "U+1BB9">>,
      <<"U+1C40", "U+1C41", "U+1C42", "U+1C43", "U+1C44",
        "U+1C45", "U+1C46", "U+1C47", "U+1C48", "U+1C49">>,
      <<"U+1C50", "U+1C51", "U+1C52", "U+1C53", "U+1C54",
        "U+1C55", "U+1C56", "U+1C57", "U+1C58", "U+1C59">>,
      <<"U+A620", "U+A621", "U+A622", "U+A623", "U+A624",
        "U+A625", "U+A626", "U+A627", "U+A628", "U+A629">>,
      <<"U+A8D0", "U+A8D1", "U+A8D2", "U+A8D3", "U+A8D4",
        "U+A8D5", "U+A8D6", "U+A8D7", "U+A8D8", "U+A8D9">>,
      <<"U+A900", "U+A901", "U+A902", "U+A903", "U+A904",
        "U+A905", "U+A906", "U+A907", "U+A908", "U+A909">>,
      <<"U+A9D0", "U+A9D1", "U+A9D2", "U+A9D3", "U+A9D4",
        "U+A9D5", "U+A9D6", "U+A9D7", "U+A9D8", "U+A9D9">>,
      <<"U+A9F0", "U+A9F1", "U+A9F2", "U+A9F3", "U+A9F4",
        "U+A9F5", "U+A9F6", "U+A9F7", "U+A9F8", "U+A9F9">>,
      <<"U+AA50", "U+AA51", "U+AA52", "U+AA53", "U+AA54",
        "U+AA55", "U+AA56", "U+AA57", "U+AA58", "U+AA59">>,
      <<"U+ABF0", "U+ABF1", "U+ABF2", "U+ABF3", "U+ABF4",
        "U+ABF5", "U+ABF6", "U+ABF7", "U+ABF8", "U+ABF9">>,
      <<"U+FF10", "U+FF11", "U+FF12", "U+FF13", "U+FF14",
        "U+FF15", "U+FF16", "U+FF17", "U+FF18", "U+FF19">>,
      <<"U+104A0", "U+104A1", "U+104A2", "U+104A3", "U+104A4",
        "U+104A5", "U+104A6", "U+104A7", "U+104A8", "U+104A9">>,
      <<"U+10D30", "U+10D31", "U+10D32", "U+10D33", "U+10D34",
        "U+10D35", "U+10D36", "U+10D37", "U+10D38", "U+10D39">>,
      <<"U+11066", "U+11067", "U+11068", "U+11069", "U+1106A",
        "U+1106B", "U+1106C", "U+1106D", "U+1106E", "U+1106F">>,
      <<"U+110F0", "U+110F1", "U+110F2", "U+110F3", "U+110F4",
        "U+110F5", "U+110F6", "U+110F7", "U+110F8", "U+110F9">>,
      <<"U+11136", "U+11137", "U+11138", "U+11139", "U+1113A",
        "U+1113B", "U+1113C", "U+1113D", "U+1113E", "U+1113F">>,
      <<"U+111D0", "U+111D1", "U+111D2", "U+111D3", "U+111D4",
        "U+111D5", "U+111D6", "U+111D7", "U+111D8", "U+111D9">>,
      <<"U+112F0", "U+112F1", "U+112F2", "U+112F3", "U+112F4",
        "U+112F5", "U+112F6", "U+112F7", "U+112F8", "U+112F9">>,
      <<"U+11450", "U+11451", "U+11452", "U+11453", "U+11454",
        "U+11455", "U+11456", "U+11457", "U+11458", "U+11459">>,
      <<"U+114D0", "U+114D1", "U+114D2", "U+114D3", "U+114D4",
        "U+114D5", "U+114D6", "U+114D7", "U+114D8", "U+114D9">>,
      <<"U+11650", "U+11651", "U+11652", "U+11653", "U+11654",
        "U+11655", "U+11656", "U+11657", "U+11658", "U+11659">>,
      <<"U+116C0", "U+116C1", "U+116C2", "U+116C3", "U+116C4",
        "U+116C5", "U+116C6", "U+116C7", "U+116C8", "U+116C9">>,
      <<"U+11730", "U+11731", "U+11732", "U+11733", "U+11734",
        "U+11735", "U+11736", "U+11737", "U+11738", "U+11739">>,
      <<"U+118E0", "U+118E1", "U+118E2", "U+118E3", "U+118E4",
        "U+118E5", "U+118E6", "U+118E7", "U+118E8", "U+118E9">>,
      <<"U+11950", "U+11951", "U+11952", "U+11953", "U+11954",
        "U+11955", "U+11956", "U+11957", "U+11958", "U+11959">>,
      <<"U+11C50", "U+11C51", "U+11C52", "U+11C53", "U+11C54",
        "U+11C55", "U+11C56", "U+11C57", "U+11C58", "U+11C59">>,
      <<"U+11D50", "U+11D51", "U+11D52", "U+11D53", "U+11D54",
        "U+11D55", "U+11D56", "U+11D57", "U+11D58", "U+11D59">>,
      <<"U+11DA0", "U+11DA1", "U+11DA2", "U+11DA3", "U+11DA4",
        "U+11DA5", "U+11DA6", "U+11DA7", "U+11DA8", "U+11DA9">>,
      <<"U+11F50", "U+11F51", "U+11F52", "U+11F53", "U+11F54",
        "U+11F55", "U+11F56", "U+11F57", "U+11F58", "U+11F59">>,
      <<"U+16A60", "U+16A61", "U+16A62", "U+16A63", "U+16A64",
        "U+16A65", "U+16A66", "U+16A67", "U+16A68", "U+16A69">>,
      <<"U+16AC0", "U+16AC1", "U+16AC2", "U+16AC3", "U+16AC4",
        "U+16AC5", "U+16AC6", "U+16AC7", "U+16AC8", "U+16AC9">>,
      <<"U+16B50", "U+16B51", "U+16B52", "U+16B53", "U+16B54",
        "U+16B55", "U+16B56", "U+16B57", "U+16B58", "U+16B59">>,
      <<"U+1D7CE", "U+1D7CF", "U+1D7D0", "U+1D7D1", "U+1D7D2",
        "U+1D7D3", "U+1D7D4", "U+1D7D5", "U+1D7D6", "U+1D7D7">>,
      <<"U+1D7D8", "U+1D7D9", "U+1D7DA", "U+1D7DB", "U+1D7DC",
        "U+1D7DD", "U+1D7DE", "U+1D7DF", "U+1D7E0", "U+1D7E1">>,
      <<"U+1D7E2", "U+1D7E3", "U+1D7E4", "U+1D7E5", "U+1D7E6",
        "U+1D7E7", "U+1D7E8", "U+1D7E9", "U+1D7EA", "U+1D7EB">>,
      <<"U+1D7EC", "U+1D7ED", "U+1D7EE", "U+1D7EF", "U+1D7F0",
        "U+1D7F1", "U+1D7F2", "U+1D7F3", "U+1D7F4", "U+1D7F5">>,
      <<"U+1D7F6", "U+1D7F7", "U+1D7F8", "U+1D7F9", "U+1D7FA",
        "U+1D7FB", "U+1D7FC", "U+1D7FD", "U+1D7FE", "U+1D7FF">>,
      <<"U+1E140", "U+1E141", "U+1E142", "U+1E143", "U+1E144",
        "U+1E145", "U+1E146", "U+1E147", "U+1E148", "U+1E149">>,
      <<"U+1E2F0", "U+1E2F1", "U+1E2F2", "U+1E2F3", "U+1E2F4",
        "U+1E2F5", "U+1E2F6", "U+1E2F7", "U+1E2F8", "U+1E2F9">>,
      <<"U+1E4F0", "U+1E4F1", "U+1E4F2", "U+1E4F3", "U+1E4F4",
        "U+1E4F5", "U+1E4F6", "U+1E4F7", "U+1E4F8", "U+1E4F9">>,
      <<"U+1E950", "U+1E951", "U+1E952", "U+1E953", "U+1E954",
        "U+1E955", "U+1E956", "U+1E957", "U+1E958", "U+1E959">>,
      <<"U+1FBF0", "U+1FBF1", "U+1FBF2", "U+1FBF3", "U+1FBF4",
        "U+1FBF5", "U+1FBF6", "U+1FBF7", "U+1FBF8", "U+1FBF9">>
    >>

DigitChars ==
    UNION {{DigitBlocks[b][j] : j \in 1..10} : b \in 1..Len(DigitBlocks)}

StartsWith(s, lit) == Len(s) >= Len(lit) /\ SubSeq(s, 1, Len(lit)) = lit

\* the longest run of digits s starts with (the \d+ of the patterns)
TakeDigits(s) ==
    LET stops == {i \in 1..Len(s) : s[i] \notin DigitChars}
    IN  IF stops = {} THEN s
        ELSE SubSeq(s, 1, (CHOOSE i \in stops : \A j \in stops : i <= j) - 1)

\* the value int() gives a decimal digit: its place in its run of ten
DigitValue(c) ==
    LET b == CHOOSE k \in 1..Len(DigitBlocks) :
                 \E j \in 1..10 : DigitBlocks[k][j] = c
    IN  (CHOOSE j \in 1..10 : DigitBlocks[b][j] = c) - 1

\* int() of a string of no more than MAX_STR_DIGITS digits
IntOfDigits(d) == PyInt([i \in 1..Len(d) |-> DigitValue(d[i])])

\* the characters \s matches in a str pattern, which are those of
\* str.isspace(); a character that a string of the model cannot spell is
\* named by its code point
Whitespace ==
    {" ", "\t", "\n", "\r", "\f", "U+000B", "U+001C", "U+001D", "U+001E",
     "U+001F", "U+0085", "U+00A0", "U+1680", "U+2000", "U+2001", "U+2002",
     "U+2003", "U+2004", "U+2005", "U+2006", "U+2007", "U+2008", "U+2009",
     "U+200A", "U+2028", "U+2029", "U+202F", "U+205F", "U+3000"}

\* s without the run of whitespace it starts with (the \s* of a pattern)
SkipSpaces(s) ==
    LET stops == {i \in 1..Len(s) : s[i] \notin Whitespace}
    IN  IF stops = {} THEN <<>>
        ELSE SubSeq(s, CHOOSE i \in stops : \A j \in stops : i <= j, Len(s))

\* int(s) of a str raises ValueError.  int() drops the whitespace around
\* the number, which is the whitespace above less the four separators
\* U+001C..U+001F; what is left is an optional sign and then decimal
\* digits with single underscores between them, and of digits (leading
\* zeros count, underscores and the sign do not) no more than
\* MAX_STR_DIGITS
IntRaises(s) ==
    LET Space == Whitespace \ {"U+001C", "U+001D", "U+001E", "U+001F"}
        inner == {i \in 1..Len(s) : s[i] \notin Space}
        lo == CHOOSE i \in inner : \A j \in inner : i <= j
        hi == CHOOSE i \in inner : \A j \in inner : i >= j
        stripped == IF inner = {} THEN <<>> ELSE SubSeq(s, lo, hi)
        u == IF stripped # <<>> /\ stripped[1] \in {"+", "-"}
             THEN Tail(stripped) ELSE stripped
    IN  \/ u = <<>>
        \/ u[1] \notin DigitChars
        \/ u[Len(u)] \notin DigitChars
        \/ \E i \in 1..Len(u) : u[i] \notin DigitChars \cup {"_"}
        \/ \E i \in 1..(Len(u) - 1) : u[i] = "_" /\ u[i + 1] = "_"
        \/ Cardinality({i \in 1..Len(u) : u[i] \in DigitChars})
               > MAX_STR_DIGITS

\* the pattern's literal text matches s at position p; lit gives, place by
\* place, the characters that match there
MatchesAt(s, lit, p) ==
    /\ p + Len(lit) - 1 <= Len(s)
    /\ \A i \in 1..Len(lit) : s[p + i - 1] \in lit[i]

\* re.search(lit + r'(\d+)', s), or re.search(lit + r'\s*(\d+)', s) when
\* `spaces`: group 1 of the leftmost match, <<>> for None
SearchDigits(s, lit, spaces) ==
    LET After(p) == SubSeq(s, p + Len(lit), Len(s))
        Group(p) == TakeDigits(IF spaces THEN SkipSpaces(After(p))
                               ELSE After(p))
        hits == {p \in 1..Len(s) : MatchesAt(s, lit, p) /\ Group(p) # <<>>}
    IN  IF hits = {} THEN <<>>
        ELSE Group(CHOOSE p \in hits : \A q \in hits : p <= q)

\* re.match(lit + r'(\d+)' + after, s): group 1, or None
MatchId(s, lit, after) ==
    IF ~StartsWith(s, lit) THEN NoneKey
    ELSE LET rest == SubSeq(s, Len(lit) + 1, Len(s))
             d == TakeDigits(rest)
         IN  IF d # <<>> /\ StartsWith(SubSeq(rest, Len(d) + 1, Len(rest)), after)
             THEN IdKey(d) ELSE NoneKey

\* re.match(r'VPRS(\d+)/', entity_id)
extract_series_id_from_entity_id(entity_id) ==
    MatchId(entity_id, <<"V", "P", "R", "S">>, <<"/">>)

\* re.match(r'VPRS (\d+)/P', identifier)
extract_series_id_from_identifier(identifier) ==
    MatchId(identifier, <<"V", "P", "R", "S", " ">>, <<"/", "P">>)

\* category = obj.get('category', 'Unknown')
CategoryOf(obj) == IF Has(obj, "category") THEN obj.category[1] ELSE "Unknown"

TitleOf(obj) == IF Has(obj, "title") THEN obj.title[1] ELSE ""

\* process_object raises an exception it does not catch: the TypeError of
\* re.match on the _id a relatedEntity lacks, or, for a record that is no
\* Agency, the TypeError of int() of a null timestamp or the OSError of
\* fromtimestamp() of a huge one
ProcessRaises(obj) ==
    \/ (CategoryOf(obj) = "relatedEntity" /\ ~Has(obj, "eid"))
    \/ (/\ CategoryOf(obj) # "Agency"
        /\ Has(obj, "timestamp")
        /\ obj.timestamp[1][1] \in {"null", "huge"})

\* the text 'Unknown': as a series_id value it is the very key that stands
\* for a missing series_id
UnknownText == <<"U", "n", "k", "n", "o", "w", "n">>

\* the series_id of a record that is no Agency
SeriesIdOf(obj) ==
    CASE CategoryOf(obj) = "Consignment" ->
           IF Has(obj, "ident") /\ obj.ident[1] # <<>>
           THEN extract_series_id_from_identifier(obj.ident[1])
           ELSE UnknownKey
      [] CategoryOf(obj) = "relatedEntity" ->
           extract_series_id_from_entity_id(obj.eid[1])
      [] OTHER ->
           IF Has(obj, "series_id") /\ obj.series_id[1] # UnknownText
           THEN IdKey(obj.series_id[1])
           ELSE UnknownKey

\* mutant: the agency is keyed by its identifier as it stands
ProcessAgency_KeepSpaces(obj, st) ==
    LET agency_id == IF Has(obj, "ident") THEN obj.ident[1] ELSE <<>>
    IN  IF agency_id # <<>>
        THEN [st EXCEPT !.agencies =
                 Put(@, agency_id,
                     [AgencyOf(st, agency_id) EXCEPT !.title = TitleOf(obj)]),
                 !.agency_order = Ordered(st, agency_id)]
        ELSE st

\* the Agency branch: the title of the agency, then return
ProcessAgency(obj, st) ==
    LET agency_id ==
            RemoveSpaces(IF Has(obj, "ident") THEN obj.ident[1] ELSE <<>>)
    IN  IF agency_id # <<>>
        THEN [st EXCEPT !.agencies =
                 Put(@, agency_id,
                     [AgencyOf(st, agency_id) EXCEPT !.title = TitleOf(obj)]),
                 !.agency_order = Ordered(st, agency_id)]
        ELSE st

\* datetime.fromtimestamp(seconds, tz=timezone.utc).year: the year of the
\* proleptic Gregorian calendar the second falls in (days since 1970-01-01,
\* counted in 400-year eras that begin on 1 March)
YearOf(seconds) ==
    LET days == seconds \div 86400
        z    == days + 719468
        era  == z \div 146097
        doe  == z - era * 146097
        yoe  == (doe - doe \div 1460 + doe \div 36524 - doe \div 146096)
                    \div 365
        doy  == doe - (365 * yoe + yoe \div 4 - yoe \div 100)
        mp   == (5 * doy + 2) \div 153
    IN  yoe + era * 400 + (IF mp >= 10 THEN 1 ELSE 0)

\* A timestamp is one of
\*   <<"int", seconds>>  a number of seconds of at most 32 bits (the years
\*                       1901 to 2038);
\*   <<"far", 0>>        a number beyond that for which fromtimestamp()
\*                       raises ValueError (a year outside 1..9999, up to
\*                       67768036191676799 and down to -67768040609740800
\*                       seconds) or OverflowError (2^63 and beyond);
\*   <<"huge", 0>>       a number between those, for which fromtimestamp()
\*                       raises OSError;
\*   <<"text", 0>>       no number: int() raises ValueError;
\*   <<"null", 0>>       int() raises TypeError.
\* The key of the year histograms: str(year), or 'Invalid' when int() or
\* fromtimestamp() raises ValueError or OverflowError.  TypeError and
\* OSError are not caught here (ProcessRaises).
YearKey(ts) ==
    IF ts[1] \in {"text", "far"} THEN "Invalid"
    ELSE ToString(YearOf(ts[2]))

\* `if 'timestamp' in obj:` ... the year histograms
YearStats(obj, st, sid) ==
    IF ~Has(obj, "timestamp") THEN st
    ELSE LET year_str == YearKey(obj.timestamp[1])
         IN  IF year_str = "Invalid"
             THEN [st EXCEPT !.year = Inc(@, "Invalid")]
             ELSE [st EXCEPT
                     !.year = Inc(@, year_str),
                     !.series =
                        IF CategoryOf(obj) # "Series"
                        THEN Put(@, sid,
                                 [SeriesOf(st, sid) EXCEPT
                                     !.years = Inc(@, year_str)])
                        ELSE @]

\* mutant: every Item is a unit
IsUnit_Always(obj) == TRUE

\* obj.get('barcode') == obj.get('box_barcode'): two absent fields are
\* both None, hence equal
IsUnit(obj) == obj.barcode = obj.box_barcode

\* `series_stats = stats['series'][series_id]`, then the counters by category
CategoryStats(obj, st, sid) ==
    LET ss == SeriesOf(st, sid)
        cat == CategoryOf(obj)
    IN  CASE cat = "Consignment" ->
               [st EXCEPT !.series =
                   Put(@, sid, [ss EXCEPT !.consignments = @ + 1])]
          [] cat = "Image" ->
               [st EXCEPT !.series = Put(@, sid, [ss EXCEPT !.images = @ + 1])]
          [] cat = "Item" ->
               IF IsUnit(obj)
               THEN [st EXCEPT
                       !.series = Put(@, sid, [ss EXCEPT !.items = @ + 1,
                                                         !.units = @ + 1]),
                       !.units = @ + 1]
               ELSE [st EXCEPT
                       !.series = Put(@, sid, [ss EXCEPT !.items = @ + 1])]
          [] cat = "relatedEntity" ->
               [st EXCEPT !.series =
                   Put(@, sid, [ss EXCEPT !.related_entities = @ + 1])]
          [] cat = "Series" ->
               [st EXCEPT !.series =
                   Put(@, sid, [ss EXCEPT !.title = TitleOf(obj)])]
          [] OTHER -> [st EXCEPT !.series = Put(@, sid, ss)]

\* `if 'iiif-manifest' in obj:`
IiifStats(obj, st, sid) ==
    IF Has(obj, "iiif")
    THEN [st EXCEPT
            !.series = Put(@, sid, [SeriesOf(st, sid) EXCEPT
                                       !.iiif_manifests = @ + 1]),
            !.iiif_manifests = @ + 1]
    ELSE st

\* mutant: the agencies of a record are not given its series
LinkAgencies_NoSeries(obj, st, sid, i) == st

\* `for i, agency_id in enumerate(agencies_ids):` from index i on
RECURSIVE LinkAgencies(_, _, _, _)
LinkAgencies(obj, st, sid, i) ==
    IF i > Len(obj.agencies_ids) THEN st
    ELSE LET agency_id == obj.agencies_ids[i]
             a == AgencyOf(st, agency_id)
             titled == IF i <= Len(obj.agencies_titles)
                       THEN [a EXCEPT !.title = obj.agencies_titles[i]]
                       ELSE a
         IN  LinkAgencies(obj,
                 [st EXCEPT !.agencies =
                     Put(@, agency_id,
                         [titled EXCEPT !.series = @ \cup {sid}]),
                     !.agency_order = Ordered(st, agency_id)],
                 sid, i + 1)

\* `if agencies_ids: series_stats['agencies'].update(agencies_ids)`, then
\* the loop over the agencies
AgencyStats(obj, st, sid) ==
    LET ids == {obj.agencies_ids[i] : i \in 1..Len(obj.agencies_ids)}
        st1 == [st EXCEPT !.series =
                   Put(@, sid, [SeriesOf(st, sid) EXCEPT
                                   !.agencies = @ \cup ids])]
    IN  LinkAgencies(obj, st1, sid, 1)

\* mutant: a record without a category field is not counted
CountCategory_KnownOnly(obj, st) ==
    IF Has(obj, "category")
    THEN [st EXCEPT !.category = Inc(@, CategoryOf(obj))] ELSE st

\* stats['category'][category] += 1
CountCategory(obj, st) == [st EXCEPT !.category = Inc(@, CategoryOf(obj))]

\* process_object (a record on which it does not raise)
process_object(obj, st) ==
    LET counted == CountCategory(obj, st)
    IN  IF CategoryOf(obj) = "Agency" THEN ProcessAgency(obj, counted)
        ELSE LET sid == SeriesIdOf(obj)
             IN  AgencyStats(obj,
                     IiifStats(obj,
                         CategoryStats(obj, YearStats(obj, counted, sid), sid),
                         sid),
                     sid)

\* sum of the counter `field` over the series S of stats['series']
RECURSIVE SumField(_, _, _)
SumField(st, S, field) ==
    IF S = {} THEN 0
    ELSE LET sid == CHOOSE x \in S : TRUE
         IN  st.series[sid][field] + SumField(st, S \ {sid}, field)

RECURSIVE SumYears(_, _, _)
SumYears(st, S, acc) ==
    IF S = {} THEN acc
    ELSE LET sid == CHOOSE x \in S : TRUE
         IN  SumYears(st, S \ {sid}, CounterUpdate(acc, st.series[sid].years))

\* mutant: an agency shows its own counters only
LinkedSeries_None(st, aid) == {}

\* `for series_id in agency_stats['series']: series_stats = ....get(series_id)`
LinkedSeries(st, aid) ==
    {sid \in st.agencies[aid].series : sid \in DOMAIN st.series}

\* `agency_stats[...] += series_stats[...]` over the linked series: the
\* entry of stats['agencies'] as the loop leaves it (it is updated in place)
AccumulatedAgency(st, aid) ==
    LET S == LinkedSeries(st, aid)
    IN  [st.agencies[aid] EXCEPT
            !.consignments = @ + SumField(st, S, "consignments"),
            !.iiif_manifests = @ + SumField(st, S, "iiif_manifests"),
            !.images = @ + SumField(st, S, "images"),
            !.items = @ + SumField(st, S, "items"),
            !.units = @ + SumField(st, S, "units"),
            !.years = SumYears(st, S, @)]

\* the agency_item of print_stats_json
AgencyItem(st, aid) ==
    LET a == AccumulatedAgency(st, aid)
    IN  [id |-> aid, title |-> a.title,
         consignments |-> a.consignments,
         iiif_manifests |-> a.iiif_manifests,
         images |-> a.images, items |-> a.items, series |-> a.series,
         units |-> a.units, years |-> a.years]

\* valid_series: `sid not in (None, "Unknown")`
ValidSeries(st) == {sid \in DOMAIN st.series : sid \notin {NoneKey, UnknownKey}}

\* int(series_id) raises: on None (TypeError), on 'Unknown' and on any
\* other text that is no number (ValueError)
KeyIntRaises(sid) == sid[1] # "id" \/ IntRaises(sid[2])

\* group 1 of re.search(r'VA(\d+)', agency_id), <<>> for no match
AgencyDigits(agency_id) == SearchDigits(agency_id, <<{"V"}, {"A"}>>, FALSE)

\* agency_sort_key raises: int() of more than MAX_STR_DIGITS digits
AgencyKeyRaises(agency_id) == Len(AgencyDigits(agency_id)) > MAX_STR_DIGITS

\* print_stats_json raises: agency_sort_key while the agencies are sorted,
\* or sorted(agency_stats['series'], key=int) in the loop over them
ReportRaises(st) ==
    \/ \E aid \in DOMAIN st.agencies : AgencyKeyRaises(aid)
    \/ \E aid \in DOMAIN st.agencies :
           \E sid \in st.agencies[aid].series : KeyIntRaises(sid)

\* agency_sort_key: the number after the first 'VA' that digits follow, or
\* float('inf')
agency_sort_key(agency_id) ==
    IF AgencyDigits(agency_id) = <<>> THEN INF
    ELSE IntOfDigits(AgencyDigits(agency_id))

\* a comes before b in sorted_agencies: its key is the smaller one, or the
\* keys are equal and a is the earlier key of stats['agencies'] (sorted()
\* is stable)
SortsBefore(st, a, b) ==
    LET ka == agency_sort_key(a)
        kb == agency_sort_key(b)
        Place(x) == CHOOSE i \in 1..Len(st.agency_order) :
                        st.agency_order[i] = x
    IN  \/ ka # INF /\ (kb = INF \/ ka < kb)
        \/ ka = kb /\ Place(a) < Place(b)

\* the agencies the loop over sorted_agencies comes to: none when the sort
\* itself raises; else all of them, or those up to the first one whose
\* `sorted(..., key=int)` raises
ProcessedAgencies(st) ==
    LET F == {aid \in DOMAIN st.agencies :
                 \E sid \in st.agencies[aid].series : KeyIntRaises(sid)}
    IN  IF \E aid \in DOMAIN st.agencies : AgencyKeyRaises(aid) THEN {}
        ELSE IF F = {} THEN DOMAIN st.agencies
        ELSE LET first == CHOOSE f \in F :
                              \A g \in F \ {f} : SortsBefore(st, f, g)
             IN  {aid \in DOMAIN st.agencies :
                     aid = first \/ SortsBefore(st, aid, first)}

\* stats as print_stats_json leaves it: the counters of the linked series
\* are added to the entries of stats['agencies'] themselves
StatsAfterReport(st) ==
    [st EXCEPT !.agencies =
        [aid \in DOMAIN @ |->
            IF aid \in ProcessedAgencies(st)
            THEN AccumulatedAgency(st, aid) ELSE @[aid]]]

NoReport == [printed |-> FALSE]

\* print_stats_json: the printed document (the order of the two listings,
\* which are sorted by number, is left out)
print_stats_json(st) ==
    [printed |-> TRUE,
     overall |-> [categories |-> st.category,
                  iiif_manifests |-> st.iiif_manifests,
                  objects |-> st.objects, units |-> st.units,
                  years |-> st.year],
     agencies |-> [aid \in DOMAIN st.agencies |-> AgencyItem(st, aid)],
     series |-> [sid \in ValidSeries(st) |-> st.series[sid]]]

(***************************************************************************)
(* State.                                                                  *)
(***************************************************************************)
VARIABLES
    \* main
    args, PARAMS, pc,
    \* FileManager: the files under the final and the .incomplete name
    final_file, incomplete_file,
    \* get_lowercase_parents_series
    lc_start, lowercase_series_set,
    \* get_series_estimated_counts: the facet response (data), its result
    facet_data, series_counts,
    \* stream_records_in_series_batches
    all_batches, pass_kind, batch_idx, notes,
    \* process_paginated_query
    query_params, start, total_docs, total_fetched, first_record,
    docs, written, headers,
    \* fetch_data
    url, caller, consecutive_failures,
    \* history: GETs and backoff waits of the current fetch_data call, the
    \* kinds of error it met, and whether an earlier call of the run returned
    \* after MAX_CONSECUTIVE_FAILURES - 1 failures
    attempts, backoff, errors, spent_call,
    \* history: whether the current fetch_data call has raised
    raised,
    \* history: records returned by the pages of the current pass, the
    \* numFound of its latest response, the docs fetched by the run in fetch
    \* order, rate-governor calls since the last page response, and the
    \* sleeps of the last rate-governor call
    pass_records, latest_total, fetched, throttles, slept,
    \* prov-harvest-stats: the records of the input array, the stats of
    \* process_json_stream (stats.objects records have been processed), and
    \* the document printed by print_stats_json
    input_stream, stats, report,
    \* prov-harvest-stats, process_json_stream: the number of the next
    \* parser event, the locals obj, in_array and current_array, and
    \* (history) the objects handed to process_object so far
    event_pos, parsed_obj, in_array, current_array, folded,
    \* prov-api-track, fetch_data: the loop variable attempt, whether the
    \* name e is bound, (history) the sleeps of the call
    attempt, e_name, track_waits,
    \* prov-api-track, fetch_all_docs: all_docs, start, total_docs, and
    \* (history) the sleeps of the last check_rate_limit
    all_docs, track_start, track_total_docs, track_slept,
    \* prov-api-track, the process: the exception on its way up, the kinds
    \* of message printed to stderr, the exit status (<<>> while running),
    \* and the output file
    propagating, stderr, exit_status, output_file

vars == <<args, PARAMS, pc, final_file, incomplete_file, lc_start,
          lowercase_series_set, series_counts, all_batches, pass_kind,
          batch_idx, notes, query_params, start, total_docs, total_fetched,
          first_record, docs, written, headers, url, caller,
          consecutive_failures, attempts, backoff, errors, spent_call,
          raised, pass_records, latest_total, fetched, throttles,
          slept, facet_data, input_stream, stats, report, event_pos,
          parsed_obj, in_array, current_array, folded, attempt, e_name,
          track_waits, all_docs, track_start, track_total_docs, track_slept,
          propagating, stderr, exit_status, output_file>>

fileVars == <<final_file, incomplete_file>>
planVars == <<lc_start, lowercase_series_set, facet_data, series_counts, all_batches>>
passVars == <<pass_kind, batch_idx, notes>>
pageVars == <<query_params, start, total_docs, total_fetched, first_record, docs, written, headers>>
fetchVars == <<url, caller, consecutive_failures, attempts, backoff, errors, raised>>
histVars == <<pass_records, latest_total, fetched, throttles, slept>>
statsVars == <<input_stream, stats, report>>
eventVars == <<event_pos, parsed_obj, in_array, current_array, folded>>
trackVars == <<attempt, e_name, track_waits, all_docs, track_start, track_total_docs, track_slept, propagating, stderr, exit_status, output_file>>
toolVars == <<statsVars, eventVars, trackVars>>
harvestVars == <<args, PARAMS, fileVars, planVars, passVars, pageVars, fetchVars, spent_call, histVars>>

(***************************************************************************)
(* Inputs.                                                                 *)
(***************************************************************************)
Query(kind, series, lower) == [kind |-> kind, series |-> series, lower |-> lower]

\* the command lines tried: plain, and series-batch as a full harvest and
\* with --series-max 1, without and with --include-related-entities
ArgsOf(b, r, m) ==
    [series_batch |-> b, include_related_entities |-> r, series_min |-> 1,
     series_max |-> m, rows |-> 2, wait |-> 1, max_per_batch |-> 2,
     max_series_per_batch |-> 2]

ArgsSet ==
    {ArgsOf(FALSE, FALSE, NoMax), ArgsOf(TRUE, FALSE, NoMax),
     ArgsOf(TRUE, FALSE, 1), ArgsOf(TRUE, TRUE, 1)}

\* what an earlier run may have left under the two file names
OldDoc == <<"all", <<>>, 9>>
OldFinalFiles == {Absent, FileOf(<<LB, Dumps(OldDoc), RB>>)}
OldIncompleteFiles == {Absent, FileOf(<<LB, Dumps(OldDoc)>>)}

\* the server's answers to the facet query
FacetResponses ==
    { [series_id |-> <<>>, parents |-> <<>>],
      [series_id |-> << << <<"", <<1>>>>, 1>>, << <<"", <<2>>>>, 1>> >>,
       parents |-> << << <<"VPRS", <<2>>>>, 1>> >>],
      [series_id |-> << << <<"", <<1>>>>, 3>> >>,
       parents |-> << << <<"VPRS", <<2>>>>, 2>>, << <<"vprs", <<2>>>>, 1>> >>] }

\* the parents.ids value of a doc of the lowercase-tag scan
LcParents ==
    { <<"v", "p", "r", "s", " ", "2">>,
      <<"V", "p", "R", "s", "U+0662">>,
      <<"v", "p", "r", "s", " ", "\f", "U+00A0", "2">>,
      <<"v", "p", "r", "s", "x">>,
      <<"V", "A", "7">> }
HeaderValues == { NoHeader, <<1, 9>> }
ErrorKinds == { "429", "timeout", "other" }

\* the docs the server returns for a request: d records from the offset on
ServerDocs(u, d) ==
    [i \in 1..d |-> <<u.q.kind, u.q.series, PyInt(u.start) + i>>]

(***************************************************************************)
(* main, FileManager.                                                      *)
(***************************************************************************)
\* a facet response without facet values
NoFacets == [series_id |-> <<>>, parents |-> <<>>]

\* the planning locals before their first assignment
IdlePlan ==
    /\ lc_start = 0
    /\ lowercase_series_set = {}
    /\ facet_data = NoFacets
    /\ series_counts = <<>>
    /\ all_batches = <<>>

\* every other local of the drivers before its first assignment
IdleRun ==
    /\ PARAMS = [start |-> PyStr(0), q |-> Query("all", <<>>, {}),
                 rows |-> PyStr(args.rows)]
    /\ pass_kind = "none"
    /\ batch_idx = 0
    /\ notes = {}
    /\ query_params = PARAMS
    /\ start = 0
    /\ total_docs = INF
    /\ total_fetched = 0
    /\ first_record = TRUE
    /\ docs = <<>>
    /\ written = 0
    /\ url = PARAMS
    /\ caller = "none"
    /\ consecutive_failures = 0
    /\ attempts = 0
    /\ backoff = <<>>
    /\ errors = {}
    /\ spent_call = FALSE
    /\ raised = FALSE
    /\ pass_records = 0
    /\ latest_total = INF
    /\ fetched = <<>>
    /\ throttles = 0
    /\ slept = <<>>

\* the statistics program has read nothing
IdleStats ==
    /\ input_stream = <<>>
    /\ stats = EmptyStats
    /\ report = NoReport

\* the event loop of the statistics program has not started
IdleEvents ==
    /\ event_pos = 0
    /\ parsed_obj = [category |-> <<>>, ident |-> <<>>, eid |-> <<>>,
                     series_id |-> <<>>, timestamp |-> <<>>,
                     barcode |-> <<>>, box_barcode |-> <<>>, iiif |-> <<>>,
                     agencies_ids |-> <<>>, agencies_titles |-> <<>>,
                     title |-> <<>>]
    /\ in_array = <<>>
    /\ current_array = <<>>
    /\ folded = <<>>

\* the tracking program has not started
IdleTrack ==
    /\ attempt = 0
    /\ e_name = "unbound"
    /\ track_waits = <<>>
    /\ all_docs = <<>>
    /\ track_start = 0
    /\ track_total_docs = INF
    /\ track_slept = <<>>
    /\ propagating = "none"
    /\ stderr = {}
    /\ exit_status = <<>>
    /\ output_file = [exists |-> FALSE, docs |-> 0]

Idle == IdlePlan /\ IdleRun /\ IdleStats /\ IdleEvents /\ IdleTrack

\* main after argument parsing (PARAMS['rows'] = str(args.rows))
Init ==
    /\ args \in ArgsSet
    /\ pc = "main"
    /\ final_file \in OldFinalFiles
    /\ incomplete_file \in OldIncompleteFiles
    /\ headers = NoHeader
    /\ Idle

\* mutant: the final name is not looked at before the harvest starts
CheckExistingFiles_Skipped ==
    /\ pc = "main"
    /\ IF args.series_batch
       THEN pc' = "lc_loop" /\ UNCHANGED PARAMS
       ELSE /\ pc' = "prepare"
            /\ PARAMS' = [PARAMS EXCEPT !.q = Query("all", <<>>, {})]
    /\ UNCHANGED <<toolVars, args, fileVars, planVars, passVars, pageVars, fetchVars,
                   spent_call, histVars>>

\* main: check_existing_files, then the choice of the driver
CheckExistingFiles ==
    /\ pc = "main"
    /\ IF final_file.exists
       THEN pc' = "exit1" /\ UNCHANGED PARAMS
       ELSE IF args.series_batch
       THEN pc' = "lc_loop" /\ UNCHANGED PARAMS
       ELSE /\ pc' = "prepare"
            /\ PARAMS' = [PARAMS EXCEPT !.q = Query("all", <<>>, {})]
    /\ UNCHANGED <<toolVars, args, fileVars, planVars, passVars, pageVars, fetchVars,
                   spent_call, histVars>>

\* mutant: the in-progress file is opened for appending, so what an
\* earlier run left in it is kept
prepare_for_writing_open_Append ==
    /\ pc = "prepare"
    /\ incomplete_file' = IF incomplete_file.exists THEN incomplete_file
                          ELSE FileOf(<<>>)
    /\ pc' = "prepare_write"
    /\ UNCHANGED <<toolVars, args, PARAMS, final_file, planVars, passVars,
                   pageVars, fetchVars, spent_call, histVars>>

\* FileManager.prepare_for_writing, `self.file_opener(..., 'wb')`: the file
\* is made, or cut to nothing
prepare_for_writing_open ==
    /\ pc = "prepare"
    /\ incomplete_file' = FileOf(<<>>)
    /\ pc' = "prepare_write"
    /\ UNCHANGED <<toolVars, args, PARAMS, final_file, planVars, passVars,
                   pageVars, fetchVars, spent_call, histVars>>

\* FileManager.prepare_for_writing, `f.write(b"[")` and the end of the with
\* block; the driver goes on to its first pass
prepare_for_writing_write ==
    /\ pc = "prepare_write"
    /\ incomplete_file' = FileOf(Append(incomplete_file.data, LB))
    /\ pass_kind' = IF args.series_batch THEN "FA" ELSE "plain"
    /\ pc' = "begin_pass"
    /\ UNCHANGED <<toolVars, args, PARAMS, final_file, planVars, batch_idx, notes,
                   pageVars, fetchVars, spent_call, histVars>>

\* mutant: the rename comes without the closing bracket
FinaliseWrite_NoBracket ==
    /\ pc = "finalise"
    /\ pc' = "rename"
    /\ UNCHANGED <<toolVars, args, PARAMS, fileVars, planVars, passVars, pageVars,
                   fetchVars, spent_call, histVars>>

\* FileManager.finalise: the closing bracket, then the rename
FinaliseWrite ==
    /\ pc = "finalise"
    /\ incomplete_file' = FileOf(Append(incomplete_file.data, RB))
    /\ pc' = "rename"
    /\ UNCHANGED <<toolVars, args, PARAMS, final_file, planVars, passVars, pageVars,
                   fetchVars, spent_call, histVars>>

FinaliseRename ==
    /\ pc = "rename"
    /\ final_file' = incomplete_file
    /\ incomplete_file' = Absent
    /\ pc' = "complete"
    /\ UNCHANGED <<toolVars, args, PARAMS, planVars, passVars, pageVars, fetchVars,
                   spent_call, histVars>>

\* after finalise() has returned: the closing messages of stream_records
\* and of stream_records_in_series_batches, then the return to main and the
\* end of its try block
PrintComplete ==
    /\ pc = "complete"
    /\ pc' = "done"
    /\ UNCHANGED <<toolVars, args, PARAMS, fileVars, planVars, passVars,
                   pageVars, fetchVars, spent_call, histVars>>

(***************************************************************************)
(* fetch_data: one call is a run of GET attempts on the same url.          *)
(***************************************************************************)
\* mutant: the failure counter outlives the call
CallFetch_KeepCounter(u, c) ==
    /\ url' = u
    /\ caller' = c
    /\ attempts' = 0
    /\ raised' = FALSE
    /\ pc' = "fetch"
    /\ UNCHANGED <<consecutive_failures, backoff, errors>>

\* entry of fetch_data(u) from the call site c
CallFetch(u, c) ==
    /\ url' = u
    /\ caller' = c
    /\ consecutive_failures' = 0
    /\ attempts' = 0
    /\ backoff' = <<>>
    /\ errors' = {}
    /\ raised' = FALSE
    /\ pc' = "fetch"

\* mutant: a rate-limit answer is waited out without being counted
FailureStep_Skip429(kind) ==
    /\ consecutive_failures' =
         IF kind = "429" THEN consecutive_failures
         ELSE consecutive_failures + 1
    /\ backoff' = Append(backoff, BASE_WAIT_TIME * (consecutive_failures + 1))
    /\ errors' = errors \cup {kind}
    /\ attempts' = attempts + 1
    /\ UNCHANGED <<url, caller, pc, raised, spent_call>>

\* the except branch: count the failure, sleep BASE_WAIT_TIME * count
FailureStep(kind) ==
    /\ consecutive_failures' = consecutive_failures + 1
    /\ backoff' = Append(backoff, BASE_WAIT_TIME * (consecutive_failures + 1))
    /\ errors' = errors \cup {kind}
    /\ attempts' = attempts + 1
    /\ UNCHANGED <<url, caller, pc, raised, spent_call>>

\* requests.get and raise_for_status pass: the response is in hand
FetchAttemptOK ==
    /\ pc = "fetch"
    /\ consecutive_failures < MAX_CONSECUTIVE_FAILURES
    /\ attempts' = attempts + 1
    /\ pc' = "response"
    /\ UNCHANGED <<toolVars, args, PARAMS, fileVars, planVars, passVars, pageVars, url,
                   caller, consecutive_failures, backoff, errors, raised,
                   spent_call, histVars>>

\* `return response.json(), response.headers, len(response.content)`: the
\* locals of the call are gone
FetchReturn ==
    /\ spent_call' =
         (spent_call \/ consecutive_failures = MAX_CONSECUTIVE_FAILURES - 1)
    /\ attempts' = 0
    /\ consecutive_failures' = 0
    /\ backoff' = <<>>
    /\ errors' = {}
    /\ UNCHANGED <<url, caller, raised>>

\* mutant: a failed GET moves the offset on
FetchAttemptFail_Advance ==
    /\ pc = "fetch"
    /\ consecutive_failures < MAX_CONSECUTIVE_FAILURES
    /\ \E kind \in ErrorKinds : FailureStep(kind)
    /\ start' = start + 1
    /\ UNCHANGED <<toolVars, args, PARAMS, fileVars, planVars, passVars, query_params,
                   total_docs, total_fetched, first_record, docs, written,
                   headers, histVars>>

\* a GET that raises a RequestException of the given kind
FetchAttemptFail ==
    /\ pc = "fetch"
    /\ consecutive_failures < MAX_CONSECUTIVE_FAILURES
    /\ \E kind \in ErrorKinds : FailureStep(kind)
    /\ UNCHANGED <<toolVars, args, PARAMS, fileVars, planVars, passVars, pageVars,
                   histVars>>

\* where TooManyFailedRequestsError ends up, by call site
RaiseTarget(c) ==
    CASE c = "lc" -> "facet"
      [] c = "facet" -> "exit1"
      [] OTHER -> "exit1"

\* the loop condition fails: raise TooManyFailedRequestsError
FetchRaise ==
    /\ pc = "fetch"
    /\ ~(consecutive_failures < MAX_CONSECUTIVE_FAILURES)
    /\ pc' = RaiseTarget(caller)
    /\ raised' = TRUE
    /\ UNCHANGED <<toolVars, args, PARAMS, fileVars, planVars, passVars, pageVars, url,
                   caller, consecutive_failures, attempts, backoff, errors,
                   spent_call, histVars>>

(***************************************************************************)
(* process_paginated_query.                                                *)
(***************************************************************************)
\* mutant: no call site passes first_record=True
FirstRecordArg_Never(kind) == FALSE

\* the first_record argument of each call site
FirstRecordArg(kind) == kind \in {"plain", "FA"}

\* the per-pass copy of PARAMS of each call site
PassParams(kind) ==
    CASE kind = "FA" ->
           [PARAMS EXCEPT !.q = Query("FA", <<>>, {})]
      [] kind = "batch" ->
           [PARAMS EXCEPT !.q =
               Query("series", all_batches[batch_idx + 1],
                     {x \in lowercase_series_set :
                        \E k \in 1..Len(all_batches[batch_idx + 1]) :
                            all_batches[batch_idx + 1][k] = x})]
      [] kind = "related" ->
           [PARAMS EXCEPT !.q = Query("related", <<>>, {}),
                          !.rows = PyStr(args.rows * 2)]
      [] OTHER -> PARAMS

\* entry: start = int(query_params.get('start')), total_docs = inf
BeginPass ==
    /\ pc = "begin_pass"
    /\ query_params' = PassParams(pass_kind)
    /\ start' = PyInt(PassParams(pass_kind).start)
    /\ total_docs' = INF
    /\ total_fetched' = 0
    /\ first_record' = FirstRecordArg(pass_kind)
    /\ pass_records' = 0
    /\ latest_total' = INF
    /\ pc' = "loop"
    /\ UNCHANGED <<toolVars, args, PARAMS, fileVars, planVars, passVars, docs, written,
                   headers, fetchVars, spent_call, fetched, throttles,
                   slept>>

\* mutant: the pass works on PARAMS itself, not on a copy of it
LoopTest_OnTemplate ==
    /\ pc = "loop"
    /\ IF Less(start, total_docs)
       THEN /\ query_params' = [query_params EXCEPT !.start = PyStr(start)]
            /\ PARAMS' = [PARAMS EXCEPT !.start = PyStr(start)]
            /\ CallFetch([query_params EXCEPT !.start = PyStr(start)], "page")
       ELSE /\ pc' = "end_pass"
            /\ UNCHANGED <<PARAMS, query_params, fetchVars>>
    /\ headers' = NoHeader
    /\ slept' = <<>>
    /\ UNCHANGED <<toolVars, args, fileVars, planVars, passVars, start,
                   total_docs, total_fetched, first_record, docs, written,
                   spent_call, pass_records, latest_total, fetched,
                   throttles>>

\* while start < total_docs: build the url and call fetch_data
LoopTest ==
    /\ pc = "loop"
    /\ IF Less(start, total_docs)
       THEN /\ query_params' = [query_params EXCEPT !.start = PyStr(start)]
            /\ CallFetch([query_params EXCEPT !.start = PyStr(start)], "page")
       ELSE /\ pc' = "end_pass"
            /\ UNCHANGED <<query_params, fetchVars>>
    /\ headers' = NoHeader
    /\ slept' = <<>>
    /\ UNCHANGED <<toolVars, args, PARAMS, fileVars, planVars, passVars, start,
                   total_docs, total_fetched, first_record, docs, written,
                   spent_call, pass_records, latest_total, fetched,
                   throttles>>

\* mutant: only the first response sets total_docs
NewTotal_FirstOnly(old, numFound) == IF old = INF THEN numFound ELSE old

\* total_docs = data['response']['numFound']
NewTotal(old, numFound) == numFound

\* the response of a page request: d docs, numFound nf, rate-limit header h
FetchPageOK ==
    /\ pc = "response"
    /\ caller = "page"
    /\ \E d \in 0..MaxDocs, nf \in 0..MaxTotal, h \in HeaderValues :
        /\ Len(fetched) + d <= MaxRecords
        /\ docs' = ServerDocs(url, d)
        /\ total_docs' = NewTotal(total_docs, nf)
        /\ latest_total' = nf
        /\ headers' = h
        /\ pass_records' = pass_records + d
        /\ fetched' = fetched \o ServerDocs(url, d)
    /\ written' = 0
    /\ FetchReturn
    /\ pc' = "write"
    /\ throttles' = 0
    /\ UNCHANGED <<toolVars, args, PARAMS, fileVars, planVars, passVars, query_params,
                   start, total_fetched, first_record, slept>>

\* `for doc in docs:`: the first write of a turn, `file_handle.write(b",\n")`
\* unless first_record (then first_record = False)
WriteSeparator ==
    /\ pc = "write"
    /\ written < Len(docs)
    /\ IF first_record
       THEN first_record' = FALSE /\ UNCHANGED incomplete_file
       ELSE /\ UNCHANGED first_record
            /\ incomplete_file' = FileOf(Append(incomplete_file.data, SEP))
    /\ pc' = "dump"
    /\ UNCHANGED <<toolVars, args, PARAMS, final_file, planVars, passVars,
                   query_params, start, total_docs, total_fetched, docs,
                   written, headers, fetchVars, spent_call, histVars>>

\* the second write of the turn: json.dumps(doc).encode(), write, flush
WriteRecord ==
    /\ pc = "dump"
    /\ incomplete_file' =
         FileOf(Append(incomplete_file.data, Dumps(docs[written + 1])))
    /\ written' = written + 1
    /\ pc' = "write"
    /\ UNCHANGED <<toolVars, args, PARAMS, final_file, planVars, passVars,
                   query_params, start, total_docs, total_fetched,
                   first_record, docs, headers, fetchVars, spent_call,
                   histVars>>

\* mutant: the offset advances by the configured rows
NextStart_ByRows(s, page) == s + PyInt(query_params.rows)

\* start += len(docs), then `if start < total_docs: check_rate_limit(...)`
NextStart(s, page) == s + Len(page)

AdvanceOffset ==
    /\ pc = "write"
    /\ written = Len(docs)
    /\ start' = NextStart(start, docs)
    /\ total_fetched' = total_fetched + Len(docs)
    /\ docs' = <<>>
    /\ written' = 0
    /\ IF Less(NextStart(start, docs), total_docs)
       THEN pc' = "throttle" /\ UNCHANGED headers
       ELSE pc' = "loop" /\ headers' = NoHeader
    /\ UNCHANGED <<toolVars, args, PARAMS, fileVars, planVars, passVars, query_params,
                   total_docs, first_record, fetchVars, spent_call,
                   histVars>>

RateLimitStep ==
    /\ pc = "throttle"
    /\ slept' = check_rate_limit(headers, args.wait)
    /\ throttles' = throttles + 1
    /\ pc' = "loop"
    /\ UNCHANGED <<toolVars, args, PARAMS, fileVars, planVars, passVars, pageVars,
                   fetchVars, spent_call, pass_records, latest_total,
                   fetched>>

\* the next non-empty batch at or after index i (`if not series_batch: continue`)
RECURSIVE NextBatch(_)
NextBatch(i) ==
    IF i < Len(all_batches) /\ all_batches[i + 1] = <<>>
    THEN NextBatch(i + 1) ELSE i

\* mutant: only the flag brings the relatedEntity pass
IncludeRelated_FlagOnly == args.include_related_entities

\* include_related or full_harvest
IncludeRelated ==
    args.include_related_entities
    \/ (args.series_min = 1 /\ args.series_max = NoMax)

\* mutant: the file is finalised after whichever pass has just returned
AfterBatches_FinaliseEarly(i) ==
    pc' = "finalise" /\ UNCHANGED <<pass_kind, batch_idx>>

\* the batch loop from index i on, then the relatedEntity decision
AfterBatches(i) ==
    IF NextBatch(i) < Len(all_batches)
    THEN pass_kind' = "batch" /\ batch_idx' = NextBatch(i) /\ pc' = "begin_pass"
    ELSE IF IncludeRelated
    THEN pass_kind' = "related" /\ pc' = "begin_pass" /\ UNCHANGED batch_idx
    ELSE pc' = "finalise" /\ UNCHANGED <<pass_kind, batch_idx>>

Abs(x) == IF x < 0 THEN -x ELSE x

\* mutant: the 5% leg of the threshold is dropped
Discrepancy_TenOnly(actual_count, estimated_count) ==
    Abs(actual_count - estimated_count) > 10

\* abs(actual_count - estimated_count) > max(10, estimated_count * 0.05)
Discrepancy(actual_count, estimated_count) ==
    /\ Abs(actual_count - estimated_count) > 10
    /\ 20 * Abs(actual_count - estimated_count) > estimated_count

\* process_paginated_query returns (its locals are gone); the driver goes on
EndPass ==
    /\ pc = "end_pass"
    /\ CASE pass_kind = "FA" -> AfterBatches(0) /\ UNCHANGED notes
         [] pass_kind = "batch" ->
              /\ notes' =
                   IF Discrepancy(total_docs,
                        get_batch_result_count_from_counts(
                            all_batches[batch_idx + 1], series_counts))
                   THEN notes \cup {batch_idx + 1} ELSE notes
              /\ AfterBatches(batch_idx + 1)
         [] OTHER -> pc' = "finalise" /\ UNCHANGED passVars
    /\ query_params' = PARAMS
    /\ start' = 0
    /\ total_docs' = INF
    /\ total_fetched' = 0
    /\ first_record' = TRUE
    /\ UNCHANGED <<toolVars, args, PARAMS, fileVars, planVars, docs, written, headers,
                   fetchVars, spent_call, histVars>>

(***************************************************************************)
(* Series-batch planning queries.                                          *)
(***************************************************************************)
\* 'vprs' in parent_id.lower(), place by place: str.lower() turns into v,
\* p, r or s these letters and their capitals only, and it leaves every
\* whitespace character and every decimal digit as it is, so the pattern
\* finds in the lowered text what this one finds in the text itself
VprsAnyCase == <<{"v", "V"}, {"p", "P"}, {"r", "R"}, {"s", "S"}>>

\* group 1 of re.search(r'vprs\s*(\d+)', parent_id.lower()) for a parent_id
\* with parent_id.lower().startswith('vprs'), <<>> when there is none
LcDigits(parent) ==
    IF ~MatchesAt(parent, VprsAnyCase, 1) THEN <<>>
    ELSE SearchDigits(parent, VprsAnyCase, TRUE)

\* int(match.group(1)) raises: more than MAX_STR_DIGITS digits
LcIntRaises(parent) == Len(LcDigits(parent)) > MAX_STR_DIGITS

\* get_lowercase_parents_series: the series id a parents.ids value yields
LcSeries(parent) ==
    IF LcDigits(parent) # <<>>
       /\ InSeriesRange(IntOfDigits(LcDigits(parent)), args.series_min,
                        args.series_max)
    THEN {IntOfDigits(LcDigits(parent))} ELSE {}

LcRequest ==
    /\ pc = "lc_loop"
    /\ CallFetch([start |-> PyStr(lc_start), q |-> Query("lc", <<>>, {}),
                  rows |-> PyStr(args.rows)], "lc")
    /\ UNCHANGED <<toolVars, args, PARAMS, fileVars, planVars, passVars, pageVars,
                   spent_call, histVars>>

FetchLcOK ==
    /\ pc = "response"
    /\ caller = "lc"
    /\ \E d \in 0..MaxLcDocs, nf \in 0..MaxLcTotal, parent \in LcParents :
        IF d = 0 \/ LcIntRaises(parent)
        THEN pc' = "facet" /\ UNCHANGED <<lc_start, lowercase_series_set>>
        ELSE /\ lowercase_series_set' =
                   lowercase_series_set \cup LcSeries(parent)
             /\ lc_start' = lc_start + d
             /\ pc' = IF lc_start + d >= nf THEN "facet" ELSE "lc_loop"
    /\ FetchReturn
    /\ UNCHANGED <<toolVars, args, PARAMS, fileVars, facet_data, series_counts,
                   all_batches, passVars, pageVars, histVars>>

FacetRequest ==
    /\ pc = "facet"
    /\ CallFetch([start |-> PyStr(0), q |-> Query("facet", <<>>, {}),
                  rows |-> PyStr(0)], "facet")
    /\ UNCHANGED <<toolVars, args, PARAMS, fileVars, planVars, passVars, pageVars,
                   spent_call, histVars>>

\* the facet response, one of Responses: series_counts, and
\* `if not series_counts: exit(1)`
FetchFacet(Responses) ==
    /\ pc = "response"
    /\ caller = "facet"
    /\ \E r \in Responses :
        LET sc == EstimatedCounts(r.series_id, r.parents, args.series_min,
                                  args.series_max)
        IN  /\ facet_data' = r
            /\ series_counts' = sc
            /\ pc' = IF DOMAIN sc = {} THEN "exit1" ELSE "plan"
    /\ FetchReturn
    /\ UNCHANGED <<toolVars, args, PARAMS, fileVars, lc_start, lowercase_series_set,
                   all_batches, passVars, pageVars, histVars>>

FetchFacetOK == FetchFacet(FacetResponses)

\* all_batches = create_optimal_batches_from_counts(series_counts, ...);
\* the locals of the two planning functions, which have returned, are gone
PlanBatches ==
    /\ pc = "plan"
    /\ all_batches' = create_optimal_batches_from_counts(
                          series_counts, args.max_per_batch,
                          args.max_series_per_batch)
    /\ lc_start' = 0
    /\ facet_data' = NoFacets
    /\ pc' = "prepare"
    /\ UNCHANGED <<toolVars, args, PARAMS, fileVars, lowercase_series_set,
                   series_counts, passVars, pageVars, fetchVars,
                   spent_call, histVars>>

(***************************************************************************)
(* KeyboardInterrupt.                                                      *)
(***************************************************************************)
\* the positions inside the try block of main
InTry ==
    {"lc_loop", "facet", "plan", "prepare", "prepare_write", "begin_pass",
     "loop", "fetch",
     "response", "write", "dump", "throttle", "end_pass", "finalise",
     "rename", "complete"}

\* the positions inside process_paginated_query
Paginating ==
    \/ pc \in {"loop", "write", "dump", "throttle", "end_pass"}
    \/ (pc \in {"fetch", "response"} /\ caller = "page")

\* the locals of a process that has exited
Exited ==
    /\ PARAMS' = [start |-> PyStr(0), q |-> Query("all", <<>>, {}),
                  rows |-> PyStr(args.rows)]
    /\ query_params' = [start |-> PyStr(0), q |-> Query("all", <<>>, {}),
                        rows |-> PyStr(args.rows)]
    /\ url' = [start |-> PyStr(0), q |-> Query("all", <<>>, {}),
               rows |-> PyStr(args.rows)]
    /\ lc_start' = 0
    /\ lowercase_series_set' = {}
    /\ facet_data' = NoFacets
    /\ series_counts' = <<>>
    /\ all_batches' = <<>>
    /\ pass_kind' = "none"
    /\ batch_idx' = 0
    /\ notes' = {}
    /\ start' = 0
    /\ total_docs' = INF
    /\ total_fetched' = 0
    /\ first_record' = TRUE
    /\ docs' = <<>>
    /\ written' = 0
    /\ headers' = NoHeader
    /\ caller' = "none"
    /\ consecutive_failures' = 0
    /\ attempts' = 0
    /\ backoff' = <<>>
    /\ errors' = {}
    /\ spent_call' = FALSE
    /\ raised' = FALSE
    /\ pass_records' = 0
    /\ latest_total' = INF
    /\ fetched' = <<>>
    /\ throttles' = 0
    /\ slept' = <<>>

\* mutant: the interrupt handler removes the in-progress file
Interrupt_Cleanup ==
    /\ pc \in InTry
    /\ pc' = "exit2"
    /\ incomplete_file' = Absent
    /\ UNCHANGED <<toolVars, args, final_file>>
    /\ Exited

\* except KeyboardInterrupt: message, sys.exit(2); the process is gone
Interrupt ==
    /\ pc \in InTry
    /\ pc' = "exit2"
    /\ UNCHANGED <<toolVars, args, fileVars>>
    /\ Exited

(***************************************************************************)
(* process_json_stream of prov-harvest-stats.                              *)
(***************************************************************************)
\* the records of the input array
Rec ==
    [category |-> <<>>, ident |-> <<>>, eid |-> <<>>, series_id |-> <<>>,
     timestamp |-> <<>>, barcode |-> <<>>, box_barcode |-> <<>>,
     iiif |-> <<>>, agencies_ids |-> <<>>, agencies_titles |-> <<>>,
     title |-> <<>>]

Cat(c) == [Rec EXCEPT !.category = <<c>>]
InSeries(c, digit) == [Cat(c) EXCEPT !.series_id = << <<digit>> >>]
VA1 == <<"V", "A", "1">>
VA2 == <<"V", "A", "2">>
At(seconds) == << <<"int", seconds>> >>

ItemRecords ==
    { [InSeries("Item", "5") EXCEPT !.barcode = <<"A">>,
                                   !.box_barcode = <<"A">>,
                                   !.timestamp = At(0)],
      [InSeries("Item", "5") EXCEPT !.barcode = <<"A">>,
                                   !.box_barcode = <<"B">>],
      InSeries("Item", "5"),
      [InSeries("Item", "5") EXCEPT !.barcode = <<"A">>],
      [Cat("Item") EXCEPT !.barcode = <<"A">>, !.box_barcode = <<"A">>],
      [Cat("Item") EXCEPT !.agencies_ids = <<VA1>>],
      [Cat("Item") EXCEPT !.agencies_ids = <<VA2>>],
      [InSeries("Item", "5") EXCEPT !.agencies_ids = <<VA1, VA2>>,
                                   !.agencies_titles = <<"T1">>,
                                   !.barcode = <<"A">>,
                                   !.box_barcode = <<"A">>],
      [InSeries("Item", "6") EXCEPT !.agencies_ids = <<VA1>>,
                                   !.timestamp = At(1600000000),
                                   !.iiif = <<"m">>,
                                   !.barcode = <<"A">>],
      [InSeries("Item", "5") EXCEPT !.timestamp = << <<"text", 0>> >>],
      [InSeries("Item", "5") EXCEPT !.timestamp = << <<"far", 0>> >>],
      [InSeries("Item", "5") EXCEPT !.timestamp = << <<"huge", 0>> >>],
      [InSeries("Item", "5") EXCEPT !.timestamp = << <<"null", 0>> >>],
      [Cat("Item") EXCEPT !.series_id = << UnknownText >>],
      [Cat("Item") EXCEPT !.series_id = << <<"5", "a">> >>,
                          !.agencies_ids = <<VA2>>],
      [InSeries("Item", "5") EXCEPT
          !.agencies_ids = << <<"V", "A", "0", "2">> >>] }

ConsignmentRecords ==
    { [Cat("Consignment") EXCEPT
          !.ident = << <<"V", "P", "R", "S", " ", "5", "/", "P", "1">> >>,
          !.timestamp = At(1600000000)],
      [Cat("Consignment") EXCEPT !.ident = << <<"V", "P", "R", "S", "5">> >>],
      [Cat("Consignment") EXCEPT
          !.ident = << <<"V", "P", "R", "S", " ", "U+11F53", "/", "P">> >>],
      Cat("Consignment"),
      [Cat("Consignment") EXCEPT !.ident = << <<"V", "P", "R", "S", "5">> >>,
                                 !.agencies_ids = <<VA2>>] }

RelatedRecords ==
    { [Cat("relatedEntity") EXCEPT
          !.eid = << <<"V", "P", "R", "S", "5", "/", "x">> >>],
      [Cat("relatedEntity") EXCEPT !.eid = << VA1 >>],
      Cat("relatedEntity") }

AgencyRecords ==
    { [Cat("Agency") EXCEPT !.ident = << <<"V", "A", " ", "1">> >>,
                            !.title = <<"A1">>],
      [InSeries("Agency", "5") EXCEPT
          !.ident = << <<"V", "A", " ", "1">> >>,
          !.timestamp = At(0),
          !.agencies_ids = <<VA2>>,
          !.iiif = <<"m">>],
      Cat("Agency") }

OtherRecords ==
    { [InSeries("Image", "5") EXCEPT !.iiif = <<"m">>],
      [Rec EXCEPT !.series_id = << <<"6">> >>, !.timestamp = At(0)],
      [InSeries("Series", "5") EXCEPT !.title = <<"S5">>,
                                     !.timestamp = At(0)],
      Cat("Function") }

StatsRecords ==
    ItemRecords \cup ConsignmentRecords \cup RelatedRecords
    \cup AgencyRecords \cup OtherRecords

StatsStreams == UNION {[1..n -> StatsRecords] : n \in 0..MaxStream}

\* the stats dict is built, the parser is about to give the first record
StatsInit ==
    /\ args = ArgsOf(FALSE, FALSE, NoMax)
    /\ pc = "stats_read"
    /\ final_file = Absent
    /\ incomplete_file = Absent
    /\ headers = NoHeader
    /\ IdlePlan
    /\ IdleRun
    /\ input_stream \in StatsStreams
    /\ stats = EmptyStats
    /\ report = NoReport
    /\ IdleEvents
    /\ IdleTrack

\* `process_object(obj, stats)`, then `stats['objects'] += 1`; an exception
\* of process_object ends the run in `except Exception`, without a report
ProcessObject ==
    /\ pc = "stats_read"
    /\ stats.objects < Len(input_stream)
    /\ LET obj == input_stream[stats.objects + 1]
       IN  IF ProcessRaises(obj)
           THEN /\ stats' = CountCategory(obj, stats)
                /\ pc' = "stats_failed"
           ELSE /\ stats' = [process_object(obj, stats) EXCEPT
                                !.objects = @ + 1]
                /\ pc' = "stats_read"
    /\ UNCHANGED <<input_stream, report, eventVars, trackVars, harvestVars>>

\* the end of the array: print_stats_json(stats), which adds the counters
\* of the linked series to the agencies of stats; an exception it raises
\* ends the run in `except Exception`, before anything is printed
PrintStats ==
    /\ pc = "stats_read"
    /\ stats.objects = Len(input_stream)
    /\ IF ReportRaises(stats)
       THEN pc' = "stats_failed" /\ UNCHANGED report
       ELSE pc' = "stats_done" /\ report' = print_stats_json(stats)
    /\ stats' = StatsAfterReport(stats)
    /\ UNCHANGED <<input_stream, eventVars, trackVars, harvestVars>>

StatsNext == ProcessObject \/ PrintStats

StatsSpec == StatsInit /\ [][StatsNext]_vars

(***************************************************************************)
(* prov-harvest-stats: the event loop of process_json_stream.  The input   *)
(* array holds flat records: every field is a scalar or an array of        *)
(* scalars.  A prefix is the sequence of the components of ijson's dotted  *)
(* path ('item.title' is <<"item", "title">>), '' is <<>>.                 *)
(***************************************************************************)
FieldOrder ==
    <<"category", "ident", "eid", "series_id", "timestamp", "barcode",
      "box_barcode", "iiif", "agencies_ids", "agencies_titles", "title">>

ArrayFields == {"agencies_ids", "agencies_titles"}

Ev(prefix, event, value) ==
    [prefix |-> prefix, event |-> event, value |-> value]

\* the event of a scalar: 'number', 'null' or 'string'
ScalarEvent(f, v) ==
    IF f = "timestamp" /\ v[1] = "int" THEN "number"
    ELSE IF f = "timestamp" /\ v[1] = "null" THEN "null"
    ELSE "string"

\* the events of one field of a record: map_key, then the scalar, or
\* start_array, the elements and end_array; none for a field that is absent
FieldEvents(r, f) ==
    IF r[f] = <<>> THEN <<>>
    ELSE IF f \in ArrayFields
    THEN <<Ev(<<"item">>, "map_key", f),
           Ev(<<"item", f>>, "start_array", "None")>>
         \o [i \in 1..Len(r[f]) |->
                Ev(<<"item", f, "item">>, "string", r[f][i])]
         \o <<Ev(<<"item", f>>, "end_array", "None")>>
    ELSE <<Ev(<<"item">>, "map_key", f),
           Ev(<<"item", f>>, ScalarEvent(f, r[f][1]), r[f][1])>>

RECURSIVE FieldsFrom(_, _)
FieldsFrom(r, k) ==
    IF k > Len(FieldOrder) THEN <<>>
    ELSE FieldEvents(r, FieldOrder[k]) \o FieldsFrom(r, k + 1)

\* the events of one object of the array
ObjectEvents(r) ==
    <<Ev(<<"item">>, "start_map", "None")>>
    \o FieldsFrom(r, 1)
    \o <<Ev(<<"item">>, "end_map", "None")>>

RECURSIVE ObjectsFrom(_, _)
ObjectsFrom(stream, k) ==
    IF k > Len(stream) THEN <<>>
    ELSE ObjectEvents(stream[k]) \o ObjectsFrom(stream, k + 1)

\* ijson.parse(input_stream): the events of the whole array
Events(stream) ==
    <<Ev(<<>>, "start_array", "None")>>
    \o ObjectsFrom(stream, 1)
    \o <<Ev(<<>>, "end_array", "None")>>

\* prefix.startswith('item.')
StartsWithItem(prefix) == Len(prefix) >= 2 /\ prefix[1] = "item"

\* `obj = {}`
StartMap(o) == Rec

\* obj[key] = v, key the prefix without 'item.'
Store(o, key, v) == [o EXCEPT ![key[1]] = v]

EventRecords ==
    { [InSeries("Item", "5") EXCEPT !.agencies_ids = <<VA1, VA2>>,
                                   !.agencies_titles = <<"T1">>,
                                   !.barcode = <<"A">>,
                                   !.box_barcode = <<"A">>],
      [InSeries("Item", "6") EXCEPT !.agencies_ids = <<VA1>>,
                                   !.timestamp = At(1600000000),
                                   !.iiif = <<"m">>,
                                   !.barcode = <<"A">>],
      [Cat("Agency") EXCEPT !.ident = << <<"V", "A", " ", "1">> >>,
                            !.title = <<"A1">>],
      Cat("Function"),
      Cat("relatedEntity"),
      [InSeries("Item", "5") EXCEPT !.timestamp = << <<"null", 0>> >>] }

EventStreams == UNION {[1..n -> EventRecords] : n \in 0..MaxStream}

\* the parser is made, in_array = '' and current_array = []
EventInit ==
    /\ args = ArgsOf(FALSE, FALSE, NoMax)
    /\ pc = "stats_events"
    /\ final_file = Absent
    /\ incomplete_file = Absent
    /\ headers = NoHeader
    /\ IdlePlan
    /\ IdleRun
    /\ input_stream \in EventStreams
    /\ stats = EmptyStats
    /\ report = NoReport
    /\ event_pos = 1
    /\ parsed_obj = Rec
    /\ in_array = <<>>
    /\ current_array = <<>>
    /\ folded = <<>>
    /\ IdleTrack

\* one turn of `for prefix, event, value in parser:`
ParseEvent ==
    /\ pc = "stats_events"
    /\ event_pos <= Len(Events(input_stream))
    /\ LET ev == Events(input_stream)[event_pos]
           prefix == ev.prefix
           event == ev.event
           value == ev.value
       IN  IF prefix = <<"item">> /\ event = "start_map"
           THEN /\ parsed_obj' = StartMap(parsed_obj)
                /\ event_pos' = event_pos + 1
                /\ UNCHANGED <<pc, in_array, current_array, stats, folded>>
           ELSE IF StartsWithItem(prefix) /\ event = "start_array"
           THEN /\ in_array' = Tail(prefix)
                /\ current_array' = <<>>
                /\ event_pos' = event_pos + 1
                /\ UNCHANGED <<pc, parsed_obj, stats, folded>>
           ELSE IF StartsWithItem(prefix) /\ event = "end_array"
           THEN /\ parsed_obj' = Store(parsed_obj, in_array, current_array)
                /\ in_array' = <<>>
                /\ event_pos' = event_pos + 1
                /\ UNCHANGED <<pc, current_array, stats, folded>>
           ELSE IF in_array # <<>>
           THEN /\ current_array' = Append(current_array, value)
                /\ event_pos' = event_pos + 1
                /\ UNCHANGED <<pc, parsed_obj, in_array, stats, folded>>
           ELSE IF StartsWithItem(prefix)
           THEN /\ parsed_obj' = Store(parsed_obj, Tail(prefix), <<value>>)
                /\ event_pos' = event_pos + 1
                /\ UNCHANGED <<pc, in_array, current_array, stats, folded>>
           ELSE IF prefix = <<"item">> /\ event = "end_map"
           THEN /\ folded' = Append(folded, parsed_obj)
                /\ IF ProcessRaises(parsed_obj)
                   THEN /\ stats' = CountCategory(parsed_obj, stats)
                        /\ pc' = "stats_failed"
                        /\ UNCHANGED event_pos
                   ELSE /\ stats' = [process_object(parsed_obj, stats)
                                       EXCEPT !.objects = @ + 1]
                        /\ event_pos' = event_pos + 1
                        /\ UNCHANGED pc
                /\ UNCHANGED <<parsed_obj, in_array, current_array>>
           ELSE /\ event_pos' = event_pos + 1
                /\ UNCHANGED <<pc, parsed_obj, in_array, current_array,
                               stats, folded>>
    /\ UNCHANGED <<input_stream, report, trackVars, harvestVars>>

\* the parser has no more events: print_stats_json(stats), which updates
\* the agencies of stats as it goes
EndOfEvents ==
    /\ pc = "stats_events"
    /\ event_pos > Len(Events(input_stream))
    /\ IF ReportRaises(stats)
       THEN pc' = "stats_failed" /\ UNCHANGED report
       ELSE pc' = "stats_done" /\ report' = print_stats_json(stats)
    /\ stats' = StatsAfterReport(stats)
    /\ UNCHANGED <<input_stream, eventVars, trackVars, harvestVars>>

EventNext == ParseEvent \/ EndOfEvents

EventSpec == EventInit /\ [][EventNext]_vars

(***************************************************************************)
(* prov-api-track: fetch_data, fetch_all_docs and main.                    *)
(***************************************************************************)
MAX_RETRIES == 6

FAILED_MESSAGE == "Failed to fetch data after multiple retries"

\* the name e after the clause `except requests.RequestException as e:` has
\* run: Python deletes the name at the end of the clause
NameAfterExcept == "unbound"

\* check_rate_limit of prov-api-track: the sleeps it takes
track_check_rate_limit(hdrs) ==
    IF Remaining(hdrs) < RATE_LIMIT_THRESHOLD
    THEN <<RATE_LIMIT_EXTRA_SLEEP>> ELSE <<>>

\* A doc is [n, id]: its number in the result set and what it holds under
\* "identifier.PROV_ACM.id": "str" (a string), "absent" (no such key) or
\* "list" (a value that is no string).
\* normalise_keys: every doc gets every key of any doc, None where it had
\* none
normalise_keys(doc_list) ==
    [i \in 1..Len(doc_list) |->
        [doc_list[i] EXCEPT !.id =
            IF @ = "absent"
               /\ \E j \in 1..Len(doc_list) : doc_list[j].id # "absent"
            THEN "None" ELSE @]]

\* custom_sort_key: `doc.get("identifier.PROV_ACM.id", "")` is "" for a
\* missing key; `id_value.split(" ", 1)` raises AttributeError on None and
\* on a list
SortKeyRaises(doc) == doc.id \in {"None", "list"}

\* main has parsed its arguments and calls fetch_all_docs
TrackInit ==
    /\ args = ArgsOf(FALSE, FALSE, NoMax)
    /\ pc = "track_loop"
    /\ final_file = Absent
    /\ incomplete_file = Absent
    /\ headers = NoHeader
    /\ Idle

\* `while start < total_docs:` and the call of fetch_data
TrackLoopTest ==
    /\ pc = "track_loop"
    /\ IF Less(track_start, track_total_docs)
       THEN /\ pc' = "track_get"
            /\ attempt' = 0
            /\ e_name' = "unbound"
            /\ track_waits' = <<>>
       ELSE /\ pc' = "track_write"
            /\ UNCHANGED <<attempt, e_name, track_waits>>
    /\ track_slept' = <<>>
    /\ UNCHANGED <<all_docs, track_start, track_total_docs, propagating,
                   stderr, exit_status, output_file, statsVars, eventVars,
                   harvestVars>>

\* an attempt that succeeds: fetch_data returns, and fetch_all_docs goes on
\* to the end of its loop body
TrackGetOK ==
    /\ pc = "track_get"
    /\ attempt < MAX_RETRIES
    /\ \E d \in 0..MaxDocs, nf \in 0..MaxTotal, h \in HeaderValues :
        /\ Len(all_docs) + d <= MaxRecords
        /\ \E ids \in [1..d -> {"str", "absent", "list"}] :
              all_docs' = all_docs
                  \o [i \in 1..d |-> [n |-> track_start + i, id |-> ids[i]]]
        /\ track_total_docs' = nf
        /\ track_start' = track_start + d
        /\ track_slept' = IF track_start + d < nf
                          THEN track_check_rate_limit(h) ELSE <<>>
    /\ pc' = "track_loop"
    /\ UNCHANGED <<attempt, e_name, track_waits, propagating, stderr,
                   exit_status, output_file, statsVars, eventVars,
                   harvestVars>>

\* an attempt that fails: the except clause of fetch_data
TrackGetFail ==
    /\ pc = "track_get"
    /\ attempt < MAX_RETRIES
    /\ track_waits' = Append(track_waits, BASE_WAIT_TIME * (attempt + 1))
    /\ stderr' = stderr \cup {"Request failed"}
    /\ e_name' = NameAfterExcept
    /\ attempt' = attempt + 1
    /\ UNCHANGED <<pc, all_docs, track_start, track_total_docs, track_slept,
                   propagating, exit_status, output_file, statsVars,
                   eventVars, harvestVars>>

\* the statement after the for loop of fetch_data:
\* raise requests.RequestException(f"... Last error: {e}")
TrackRaise ==
    /\ pc = "track_get"
    /\ attempt = MAX_RETRIES
    /\ propagating' = IF e_name = "bound" THEN "RequestException"
                      ELSE "UnboundLocalError"
    /\ pc' = "track_raised"
    /\ UNCHANGED <<attempt, e_name, track_waits, all_docs, track_start,
                   track_total_docs, track_slept, stderr, exit_status,
                   output_file, statsVars, eventVars, harvestVars>>

\* fetch_all_docs: `except requests.RequestException as e:` prints and
\* exits with 1; any other exception ends the process with a traceback
TrackHandle ==
    /\ pc = "track_raised"
    /\ stderr' = stderr \cup {IF propagating = "RequestException"
                              THEN FAILED_MESSAGE ELSE "Traceback"}
    /\ exit_status' = <<1>>
    /\ pc' = "track_exit"
    /\ UNCHANGED <<attempt, e_name, track_waits, all_docs, track_start,
                   track_total_docs, track_slept, propagating, output_file,
                   statsVars, eventVars, harvestVars>>

\* main after fetch_all_docs has returned: normalise_keys, sorted(...,
\* key=custom_sort_key), then the output file is written (the order and the
\* text of the docs in it are left out); an exception of custom_sort_key
\* ends the process with a traceback before the file is opened
TrackWrite ==
    /\ pc = "track_write"
    /\ LET output_docs == normalise_keys(all_docs)
       IN  IF \E i \in 1..Len(output_docs) : SortKeyRaises(output_docs[i])
           THEN /\ stderr' = stderr \cup {"Traceback"}
                /\ exit_status' = <<1>>
                /\ pc' = "track_crashed"
                /\ UNCHANGED output_file
           ELSE /\ output_file' = [exists |-> TRUE, docs |-> Len(all_docs)]
                /\ stderr' = stderr \cup {"Data written"}
                /\ exit_status' = <<0>>
                /\ pc' = "track_done"
    /\ UNCHANGED <<attempt, e_name, track_waits, all_docs, track_start,
                   track_total_docs, track_slept, propagating, statsVars,
                   eventVars, harvestVars>>

TrackNext ==
    \/ TrackLoopTest
    \/ TrackGetOK
    \/ TrackGetFail
    \/ TrackRaise
    \/ TrackHandle
    \/ TrackWrite

TrackSpec == TrackInit /\ [][TrackNext]_vars

(***************************************************************************)
(* Specifications.                                                         *)
(***************************************************************************)
Next ==
    \/ CheckExistingFiles
    \/ LcRequest
    \/ FetchLcOK
    \/ FacetRequest
    \/ FetchFacetOK
    \/ PlanBatches
    \/ prepare_for_writing_open
    \/ prepare_for_writing_write
    \/ BeginPass
    \/ LoopTest
    \/ FetchAttemptOK
    \/ FetchAttemptFail
    \/ FetchRaise
    \/ FetchPageOK
    \/ WriteSeparator
    \/ WriteRecord
    \/ AdvanceOffset
    \/ RateLimitStep
    \/ EndPass
    \/ FinaliseWrite
    \/ FinaliseRename
    \/ PrintComplete
    \/ Interrupt

Spec == Init /\ [][Next]_vars

\* check_rate_limit on its own, over every header value of up to two digits
RateHeaders ==
    {NoHeader} \cup {<<a>> : a \in 0..9} \cup {<<a, b>> : a \in 0..9, b \in 0..9}

RateInit ==
    /\ \E w \in 0..MaxWait :
         args = [ArgsOf(FALSE, FALSE, NoMax) EXCEPT !.wait = w]
    /\ pc = "throttle"
    /\ final_file = Absent
    /\ incomplete_file = FileOf(<<LB>>)
    /\ headers \in RateHeaders
    /\ Idle

RateNext == RateLimitStep

RateSpec == RateInit /\ [][RateNext]_vars

\* create_optimal_batches_from_counts on its own, over every count map of
\* the series 1..MaxSeries and every pair of positive caps
CountMaps ==
    UNION {[S -> 0..MaxCount] : S \in SUBSET (1..MaxSeries)}

PlanInit ==
    /\ \E c \in 1..MaxCap, n \in 1..MaxSeriesCap :
         args = [ArgsOf(TRUE, FALSE, NoMax) EXCEPT !.max_per_batch = c,
                                                  !.max_series_per_batch = n]
    /\ pc = "plan"
    /\ final_file = Absent
    /\ incomplete_file = Absent
    /\ headers = NoHeader
    /\ lc_start = 0
    /\ lowercase_series_set = {}
    /\ facet_data = NoFacets
    /\ series_counts \in CountMaps
    /\ all_batches = <<>>
    /\ IdleRun
    /\ IdleStats
    /\ IdleEvents
    /\ IdleTrack

PlanNext == PlanBatches

PlanSpec == PlanInit /\ [][PlanNext]_vars

\* The return of the first batch pass on its own.  The facet response gave
\* the estimates of one of NoteCounts; the Function/Agency pass returned no
\* record; the batch pass has yielded y records, ids 1..y, the last of them
\* in a page of its own, and its last response reported a numFound of a,
\* with a <= y as the loop has ended.
NoteCounts == {(1 :> 13), (1 :> 240), (1 :> 120) @@ (2 :> 120)}

NoteFacets(c) ==
    [series_id |-> [i \in 1..Cardinality(DOMAIN c) |->
                      << <<"", PyStr(SortedIds(DOMAIN c)[i])>>,
                         c[SortedIds(DOMAIN c)[i]] >>],
     parents |-> <<>>]

\* the in-progress file: "[", then a separator and a record per doc
NoteFile(ds) ==
    [i \in 1..(2 * Len(ds) + 1) |->
        IF i = 1 THEN LB
        ELSE IF i % 2 = 0 THEN SEP ELSE Dumps(ds[(i - 1) \div 2])]

NoteInit ==
    /\ args = [ArgsOf(TRUE, FALSE, NoMax) EXCEPT !.max_per_batch = 250]
    /\ PARAMS = [start |-> PyStr(0), q |-> Query("all", <<>>, {}),
                 rows |-> PyStr(args.rows)]
    /\ pc = "end_pass"
    /\ final_file = Absent
    /\ lc_start = 0
    /\ lowercase_series_set = {}
    /\ \E c \in NoteCounts :
        /\ facet_data = NoFacets
        /\ series_counts = EstimatedCounts(NoteFacets(c).series_id,
                                           NoteFacets(c).parents,
                                           args.series_min, args.series_max)
    /\ all_batches = create_optimal_batches_from_counts(
                         series_counts, args.max_per_batch,
                         args.max_series_per_batch)
    /\ pass_kind = "batch"
    /\ batch_idx = 0
    /\ notes = {}
    /\ \E gap \in (0 - MaxNoteGap)..MaxNoteGap, extra \in 0..MaxNoteExtra :
        LET e == get_batch_result_count_from_counts(all_batches[1],
                                                    series_counts)
            a == e + gap
            y == a + extra
            last == IF y = 0 THEN 0 ELSE y - 1
            q == PassParams("batch")
            ds == [i \in 1..y |-> <<q.q.kind, q.q.series, i>>]
        IN  /\ a >= 0
            /\ query_params = [q EXCEPT !.start = PyStr(last)]
            /\ url = [q EXCEPT !.start = PyStr(last)]
            /\ start = y
            /\ total_docs = a
            /\ total_fetched = y
            /\ pass_records = y
            /\ latest_total = a
            /\ fetched = ds
            /\ incomplete_file = FileOf(NoteFile(ds))
    /\ first_record = FALSE
    /\ docs = <<>>
    /\ written = 0
    /\ headers = NoHeader
    /\ caller = "page"
    /\ consecutive_failures = 0
    /\ attempts = 0
    /\ backoff = <<>>
    /\ errors = {}
    /\ spent_call = FALSE
    /\ raised = FALSE
    /\ throttles = 0
    /\ slept = <<>>
    /\ IdleStats
    /\ IdleEvents
    /\ IdleTrack

NoteNext == EndPass

NoteSpec == NoteInit /\ [][NoteNext]_vars

\* The planning queries on their own, over every facet response of this
\* shape: each dimension lists, in id order, some of the series
\* 1..MaxFacetSeries with a count of 1..MaxFacetCount (f[i] = 0: series i is
\* not listed); the parents.ids dimension writes series i as "VPRS<i>", and
\* may end with a value under the lower-case tag.
RECURSIVE FacetList(_, _, _)
FacetList(tag, f, i) ==
    IF i > MaxFacetSeries THEN <<>>
    ELSE (IF f[i] > 0 THEN << << <<tag, PyStr(i)>>, f[i]>> >> ELSE <<>>)
         \o FacetList(tag, f, i + 1)

WideFacetResponses ==
    {[series_id |-> FacetList("", f, 1),
      parents |-> FacetList("VPRS", g, 1) \o low] :
        f \in [1..MaxFacetSeries -> 0..MaxFacetCount],
        g \in [1..MaxFacetSeries -> 0..MaxFacetCount],
        low \in {<<>>, << << <<"vprs", <<1>>>>, MaxFacetCount + 1>> >>}}

\* a series-batch run that found no file in its way
FacetInit ==
    /\ args \in {ArgsOf(TRUE, FALSE, NoMax), ArgsOf(TRUE, FALSE, 1)}
    /\ pc = "lc_loop"
    /\ final_file = Absent
    /\ incomplete_file = Absent
    /\ headers = NoHeader
    /\ Idle

FacetNext ==
    \/ LcRequest
    \/ FetchAttemptOK
    \/ FetchLcOK
    \/ FacetRequest
    \/ FetchFacet(WideFacetResponses)

FacetSpec == FacetInit /\ [][FacetNext]_vars

(***************************************************************************)
(* A run started where an interrupted run under the same output name left  *)
(* its in-progress file: no file under the final name, the in-progress     *)
(* file with one record.                                                   *)
(***************************************************************************)
LeftoverInit ==
    /\ args \in ArgsSet
    /\ pc = "main"
    /\ final_file = Absent
    /\ incomplete_file = FileOf(<<LB, Dumps(OldDoc)>>)
    /\ headers = NoHeader
    /\ Idle

LeftoverSpec == LeftoverInit /\ [][Next]_vars

(***************************************************************************)
(* Properties.                                                             *)
(***************************************************************************)
IsRecord(chunk) == chunk[1] = "json"
IsSeparator(chunk) == chunk[1] = ",\n"

\* C1: when a plain (non-batch) harvest has finished, the file under the
\* final name is "[", then the serialisations of all the records of all the
\* pages in fetch order joined by ",\n", then "]" -- also for zero records.
C1_PlainOutputIsArray ==
    (pc = "done" /\ ~args.series_batch) =>
        /\ final_file = FileOf(<<LB>> \o Joined(fetched) \o <<RB>>)
        /\ Len(fetched) = pass_records
        /\ Cardinality({i \in 1..Len(final_file.data) :
                           IsRecord(final_file.data[i])}) = pass_records

\* a finished plain harvest of two records or more
C1_Witness ==
    pc = "done" /\ ~args.series_batch /\ Len(fetched) >= 2

\* C2: in both output files a record is preceded by a separator if and only
\* if a record was written to the file before it, in every harvest mode.
SeparatedIffNotFirst(data) ==
    \A i \in 1..Len(data) :
        IsRecord(data[i]) =>
            ((i > 1 /\ IsSeparator(data[i - 1]))
                <=> (\E j \in 1..(i - 1) : IsRecord(data[j])))

C2_SeparatorIffNotFirst ==
    /\ SeparatedIffNotFirst(incomplete_file.data)
    /\ SeparatedIffNotFirst(final_file.data)

\* C3: the offset of a page request equals the sum of the record counts of
\* the pages before it in the same query, and the records fetched by the
\* query so far are those at the positions 1, 2, ... in order: none skipped,
\* none requested twice.
PassDocs == SubSeq(fetched, Len(fetched) - pass_records + 1, Len(fetched))

C3_OffsetIsSumOfPages ==
    /\ (pc \in {"fetch", "response"} /\ caller = "page") =>
           /\ PyInt(url.start) = pass_records
           /\ start = pass_records
    /\ pass_kind # "none" =>
           \A i \in 1..pass_records : PassDocs[i][3] = i

\* the request at offset 1 that follows a page of one record (rows is 2)
C3_Witness ==
    pc = "fetch" /\ caller = "page" /\ PyInt(url.start) = 1
    /\ PyInt(url.rows) = 2

\* C4: a page request is in flight only while the offset is below the
\* numFound of the latest response of the query (the first request has none
\* before it), and the loop has ended only with the offset at or above it.
C4_LoopFollowsLatestTotal ==
    /\ (pc \in {"fetch", "response"} /\ caller = "page"
        /\ latest_total # INF) => start < latest_total
    /\ pc = "end_pass" => (latest_total # INF /\ start >= latest_total)
    /\ pc = "throttle" => start < latest_total

\* the third request of a query whose latest numFound is 3
C4_Witness ==
    pc = "fetch" /\ caller = "page" /\ start = 2 /\ latest_total = 3

\* C5: a failed GET writes nothing, leaves the offset, the totals and the
\* fetched pages as they were and is followed by a GET of the same url; and
\* a harvest is given up during pagination only after 6 consecutive failures
\* of one fetch.
C5_FailedAttemptChangesNothing ==
    /\ [][(pc = "fetch" /\ consecutive_failures' = consecutive_failures + 1)
            => (/\ pc' = "fetch"
                /\ url' = url
                /\ UNCHANGED <<final_file, incomplete_file, query_params,
                               start, total_docs, total_fetched,
                               first_record, pass_kind, batch_idx,
                               pass_records, latest_total, fetched>>)]_vars
    /\ []((pc = "exit1" /\ caller = "page")
            => (raised /\ consecutive_failures = MAX_CONSECUTIVE_FAILURES))

\* a finished plain harvest of 3 records, one of whose fetches met 5 failures
C5_Witness ==
    pc = "done" /\ ~args.series_batch /\ spent_call /\ Len(fetched) = 3

\* C6: fetch_data raises exactly after 6 failed GETs in a row, whatever
\* their kinds; every failed GET counts, and a call makes at most 6 GETs.
C6_RaiseIffSixFailures ==
    /\ attempts <= MAX_CONSECUTIVE_FAILURES
    /\ pc = "fetch" => attempts = consecutive_failures
    /\ pc = "response" =>
           /\ attempts = consecutive_failures + 1
           /\ ~raised
    /\ raised =>
           /\ consecutive_failures = MAX_CONSECUTIVE_FAILURES
           /\ attempts = MAX_CONSECUTIVE_FAILURES
    /\ consecutive_failures = MAX_CONSECUTIVE_FAILURES =>
           (raised \/ pc = "fetch")
    /\ Cardinality(errors) <= consecutive_failures

\* a page fetch that raised after failures of all three kinds
C6_Witness ==
    raised /\ caller = "page" /\ errors = ErrorKinds

\* C7: the k-th wait of a fetch is 63 * k seconds, and a wait is taken only
\* when a retry follows it: a call of at most 6 GETs waits at most 5 times.
C7_WaitOnlyBeforeRetry ==
    /\ \A k \in 1..Len(backoff) : backoff[k] = 63 * k
    /\ Len(backoff) <= MAX_CONSECUTIVE_FAILURES - 1

\* C8: every fetch_data call starts with the failure counter at zero and no
\* wait taken, whatever the earlier calls of the run went through.
C8_CounterZeroAtCallStart ==
    (pc = "fetch" /\ attempts = 0) =>
        (consecutive_failures = 0 /\ backoff = <<>> /\ ~raised)

\* a later page is fetched after 5 failures although an earlier fetch of
\* the run had already met 5
C8_Witness ==
    /\ pc = "response" /\ caller = "page" /\ start > 0
    /\ spent_call
    /\ consecutive_failures = MAX_CONSECUTIVE_FAILURES - 1

\* C9: a page request that is not the first of the run is issued after
\* exactly one rate-governor call since the page before it, and no
\* rate-governor call follows the last page.
FirstPageRequest == pass_kind \in {"plain", "FA"} /\ latest_total = INF

C9_OneThrottleBetweenPages ==
    /\ (pc = "fetch" /\ caller = "page" /\ ~FirstPageRequest)
           => throttles = 1
    /\ pc = "done" => throttles = 0

\* C10: check_rate_limit sleeps the configured wait, then 2 seconds more if
\* and only if the header's number is below 20; without the header it sleeps
\* the wait alone.
HeaderNumber(h) == IF Len(h) = 1 THEN h[1] ELSE 10 * h[1] + h[2]

C10_RateLimitSleeps ==
    pc = "loop" =>
        /\ Len(slept) \in {1, 2}
        /\ slept[1] = args.wait
        /\ Len(slept) = 2 =>
               (slept[2] = 2 /\ headers # NoHeader /\ HeaderNumber(headers) < 20)
        /\ (headers # NoHeader /\ HeaderNumber(headers) < 20) => Len(slept) = 2

\* 19 requests remaining: the wait of 3 seconds, then 2 more
C10_Witness ==
    pc = "loop" /\ headers = <<1, 9>> /\ slept = <<3, 2>>

HasClosingBracket(data) == \E i \in 1..Len(data) : data[i] = RB
IsPrefix(a, b) == Len(a) <= Len(b) /\ SubSeq(b, 1, Len(a)) = a

\* C11: a run that finds a file under the final name goes straight to exit
\* status 1: fetch_data is never called, the in-progress file is neither
\* created nor truncated, and the existing file stays as it was.
C11_ExistingOutputAborts ==
    /\ [][(pc = "main" /\ final_file.exists)
            => (pc' = "exit1" /\ UNCHANGED <<final_file, incomplete_file>>)]_vars
    /\ []((final_file.exists /\ pc \notin {"complete", "done", "exit2"})
            => (/\ pc \in {"main", "exit1"}
                /\ caller = "none"
                /\ attempts = 0
                /\ final_file \in OldFinalFiles
                /\ incomplete_file \in OldIncompleteFiles))

\* a series-batch run stopped by an existing output, an older in-progress
\* file still in place
C11_Witness ==
    /\ pc = "exit1" /\ args.series_batch
    /\ final_file.exists /\ incomplete_file.exists

\* C12: a file under the final name opens with "[" and ends with the only
\* "]" it holds; the final name is given only by the rename, after the
\* closing bracket was written and after the last pagination pass has ended;
\* and a finished run leaves no in-progress file.
AllPassesEnded ==
    /\ docs = <<>>
    /\ latest_total # INF /\ pass_records >= latest_total
    /\ CASE pass_kind \in {"plain", "related"} -> TRUE
         [] pass_kind = "FA" ->
              NextBatch(0) >= Len(all_batches) /\ ~IncludeRelated
         [] pass_kind = "batch" ->
              NextBatch(batch_idx + 1) >= Len(all_batches) /\ ~IncludeRelated
         [] OTHER -> FALSE

C12_FinalFileIsComplete ==
    /\ [](final_file.exists =>
            /\ Len(final_file.data) >= 2
            /\ final_file.data[1] = LB
            /\ \A i \in 1..Len(final_file.data) :
                   final_file.data[i] = RB <=> i = Len(final_file.data))
    /\ [](pc \in {"complete", "done"}
             => (final_file.exists /\ ~incomplete_file.exists))
    /\ [][final_file' # final_file
            => (/\ pc = "rename"
                /\ HasClosingBracket(incomplete_file.data)
                /\ AllPassesEnded
                /\ final_file' = incomplete_file)]_vars

\* a finished series-batch run whose file holds two records or more
C12_Witness ==
    /\ pc = "done" /\ args.series_batch
    /\ Len(fetched) >= 2 /\ Len(final_file.data) >= 4

\* C13: a file under the in-progress name never holds the closing bracket.
C13_IncompleteHasNoClosingBracket ==
    incomplete_file.exists => ~HasClosingBracket(incomplete_file.data)

\* C14: what a run finds in the in-progress file stays there: the file is
\* only ever appended to, so the records of an interrupted run are kept by
\* the run that follows it.
C14_ResumeKeepsWrittenRecords ==
    [][(incomplete_file.exists /\ incomplete_file'.exists)
         => IsPrefix(incomplete_file.data, incomplete_file'.data)]_vars

\* C15: a run that finds no in-progress file to go on from fails at once,
\* before any request.  (The command line has no resume option: a run meant
\* to resume is a run like any other.)
C15_NoArtifactFailsAtOnce ==
    [][(pc = "main" /\ ~incomplete_file.exists) => pc' = "exit1"]_vars

\* C16: exit status 2 is reached by the interrupt handler alone; an
\* interrupt leaves both files as they are, and one taken during pagination
\* leaves the in-progress file in place without a closing bracket and no
\* file under the final name.
C16_InterruptLeavesFiles ==
    [][(pc' = "exit2" /\ pc # "exit2")
         => (/\ pc \in InTry
             /\ UNCHANGED <<final_file, incomplete_file>>
             /\ Paginating =>
                    /\ incomplete_file'.exists
                    /\ ~HasClosingBracket(incomplete_file'.data)
                    /\ ~final_file'.exists)]_vars

\* a run interrupted after it wrote two records
C16_Witness ==
    /\ pc = "exit2"
    /\ incomplete_file.exists /\ ~final_file.exists
    /\ Len(incomplete_file.data) >= 4
    /\ incomplete_file.data[2] # Dumps(OldDoc)

\* C17: once a fetch has raised TooManyFailedRequestsError the run is at
\* exit status 1, with no file under the final name and no closing bracket
\* in the in-progress file.
C17_ExhaustionEndsRun ==
    raised =>
        /\ pc = "exit1"
        /\ ~final_file.exists
        /\ ~HasClosingBracket(incomplete_file.data)

\* C18: every planned batch has a sum of counts at most max_per_batch, or is
\* one series whose count alone exceeds max_per_batch.
C18_BatchWithinRecordCap ==
    pc = "prepare" =>
        \A k \in 1..Len(all_batches) :
            LET b == all_batches[k]
            IN  \/ SumSeq([j \in 1..Len(b) |-> series_counts[b[j]]])
                      <= args.max_per_batch
                \/ (Len(b) = 1 /\ series_counts[b[1]] > args.max_per_batch)

\* a plan with an oversized single series and a batch of two series
C18_Witness ==
    /\ pc = "prepare"
    /\ \E k \in 1..Len(all_batches) :
           /\ Len(all_batches[k]) = 1
           /\ series_counts[all_batches[k][1]] > args.max_per_batch
    /\ \E k \in 1..Len(all_batches) : Len(all_batches[k]) = 2

\* C19: the batches, one after the other, are the ascending list of the
\* series ids of the count map, and no batch is empty.
RECURSIVE Flatten(_)
Flatten(bs) == IF bs = <<>> THEN <<>> ELSE Head(bs) \o Flatten(Tail(bs))

C19_BatchesPartitionSeries ==
    pc = "prepare" =>
        LET ids == Flatten(all_batches)
        IN  /\ Len(ids) = Cardinality(DOMAIN series_counts)
            /\ {ids[i] : i \in 1..Len(ids)} = DOMAIN series_counts
            /\ \A i \in 1..(Len(ids) - 1) : ids[i] < ids[i + 1]
            /\ \A k \in 1..Len(all_batches) : all_batches[k] # <<>>
            /\ \A k \in 1..(Len(all_batches) - 1) :
                   all_batches[k][1] <= all_batches[k + 1][1]

\* three series planned into two batches or more
C19_Witness ==
    /\ pc = "prepare"
    /\ DOMAIN series_counts = {1, 2, 3}
    /\ Len(all_batches) >= 2

\* C20: no planned batch has more than max_series_per_batch series.
C20_BatchWithinSeriesCap ==
    pc = "prepare" =>
        \A k \in 1..Len(all_batches) :
            Len(all_batches[k]) <= args.max_series_per_batch

\* the series cap alone closes a batch: three series of one record each,
\* a record cap of 3 and a series cap of 2
C20_Witness ==
    /\ pc = "prepare"
    /\ args.max_per_batch = 3 /\ args.max_series_per_batch = 2
    /\ series_counts = [x \in {1, 2, 3} |-> 1]
    /\ all_batches = << <<1, 2>>, <<3>> >>

\* C29: the planner closes a batch only where a cap is crossed: for every
\* batch that is followed by another one, the sum of the batch plus the
\* count of the next series exceeds max_per_batch, or the batch holds
\* max_series_per_batch series, or the next series alone exceeds
\* max_per_batch.  So a series that brings the sum exactly to the cap, in
\* a batch with room for one more series, is in that batch.
C29_BatchClosedOnlyAtCap ==
    pc = "prepare" =>
        \A k \in 1..(Len(all_batches) - 1) :
            LET b == all_batches[k]
                n == all_batches[k + 1][1]
                sum == SumSeq([j \in 1..Len(b) |-> series_counts[b[j]]])
            IN  \/ sum + series_counts[n] > args.max_per_batch
                \/ Len(b) >= args.max_series_per_batch
                \/ series_counts[n] > args.max_per_batch

\* a tie: series 1 and 2 with counts 1 and 2 under a record cap of 3 are one
\* batch, and series 3 is closed out of it by the series cap
C29_Witness ==
    /\ pc = "prepare"
    /\ args.max_per_batch = 3 /\ args.max_series_per_batch = 2
    /\ series_counts = (1 :> 1) @@ (2 :> 2) @@ (3 :> 1)
    /\ all_batches = << <<1, 2>>, <<3>> >>

\* C26: finalisation starts only from the return of the last pagination
\* pass, with no closing bracket written and no final file yet; once it has
\* written the bracket the run never comes back to it (it can only rename,
\* finish, or be interrupted), so it is executed at most once; and after
\* the run is complete neither file changes again.
C26_FinaliseOnceAfterLastPass ==
    /\ [][(pc' = "finalise" /\ pc # "finalise")
            => (/\ pc = "end_pass"
                /\ AllPassesEnded
                /\ ~final_file.exists
                /\ ~HasClosingBracket(incomplete_file.data))]_vars
    /\ [][pc = "finalise"
            => (pc' \in {"finalise", "rename", "exit2"}
                /\ ~HasClosingBracket(incomplete_file.data))]_vars
    /\ [][pc = "rename" => pc' \in {"rename", "complete", "exit2"}]_vars
    /\ [][pc = "complete"
            => (/\ pc' \in {"complete", "done", "exit2"}
                /\ UNCHANGED <<final_file, incomplete_file>>)]_vars
    /\ [][(pc \in {"done", "exit1", "exit2"})
            => UNCHANGED <<pc, final_file, incomplete_file>>]_vars

\* a series-batch run that ended with its batch pass (no relatedEntity
\* pass), complete, with a record in the file
C26_Witness ==
    /\ pc = "done"
    /\ pass_kind = "batch" /\ Len(final_file.data) >= 3
    /\ HasClosingBracket(final_file.data)

\* C27: in series-batch mode the first pass is the Function/Agency pass and
\* no other pass becomes it; when it returns the first planned batch runs;
\* when batch i returns batch i+1 runs; when the last batch returns the
\* relatedEntity pass runs if --include-related-entities is set or
\* series_min is 1 and series_max is unset, and otherwise no pass runs; the
\* relatedEntity pass is the last; and the pass changes only where the
\* running pass has returned with its offset at the server's total.
C27_RelatedWanted ==
    args.include_related_entities
    \/ (args.series_min = 1 /\ args.series_max = NoMax)

C27_AfterLastBatch ==
    IF C27_RelatedWanted
    THEN pass_kind' = "related" /\ pc' = "begin_pass"
    ELSE pc' = "finalise" /\ pass_kind' = pass_kind

C27_PassOrder ==
    /\ [][(pc = "prepare_write" /\ pc' = "begin_pass" /\ args.series_batch)
            => pass_kind' = "FA"]_vars
    /\ [][(pass_kind' = "FA" /\ pass_kind # "FA")
            => pc = "prepare_write"]_vars
    /\ [][(pc = "end_pass" /\ pc' \notin {"end_pass", "exit2"})
            => CASE pass_kind = "FA" ->
                      IF Len(all_batches) > 0
                      THEN /\ pass_kind' = "batch" /\ batch_idx' = 0
                           /\ pc' = "begin_pass"
                      ELSE C27_AfterLastBatch
                 [] pass_kind = "batch" ->
                      IF batch_idx + 1 < Len(all_batches)
                      THEN /\ pass_kind' = "batch"
                           /\ batch_idx' = batch_idx + 1
                           /\ pc' = "begin_pass"
                      ELSE C27_AfterLastBatch
                 [] OTHER -> pc' = "finalise"]_vars
    /\ [][(<<pass_kind, batch_idx>>' # <<pass_kind, batch_idx>>
            /\ pc' # "exit2")
            => \/ pc = "prepare_write"
               \/ (/\ pc = "end_pass" /\ docs = <<>>
                   /\ latest_total # INF /\ pass_records >= latest_total)]_vars

\* a full harvest without the flag about to start the relatedEntity pass
\* after its second batch
C27_Witness ==
    /\ pc = "begin_pass" /\ pass_kind = "related" /\ batch_idx = 1
    /\ ~args.include_related_entities

\* C30: after the facet response is parsed, a series id of the requested
\* range that both facet dimensions list has the larger of its two counts
\* as its estimate (not their sum); one that a single dimension lists has
\* that dimension's count; one that neither lists has no estimate.
C30_Count(facets, v) ==
    IF \E i \in 1..Len(facets) : facets[i][1] = v
    THEN facets[CHOOSE i \in 1..Len(facets) : facets[i][1] = v][2]
    ELSE 0

C30_EstimateIsMax ==
    (pc \in {"plan", "exit1"}) =>
        \A sid \in 1..MaxFacetSeries :
            (args.series_min <= sid
             /\ (args.series_max = NoMax \/ sid <= args.series_max)) =>
                LET cs == C30_Count(facet_data.series_id, <<"", PyStr(sid)>>)
                    cp == C30_Count(facet_data.parents, <<"VPRS", PyStr(sid)>>)
                IN  IF cs > 0 /\ cp > 0
                    THEN /\ sid \in DOMAIN series_counts
                         /\ series_counts[sid] = IF cs >= cp THEN cs ELSE cp
                    ELSE IF cs + cp > 0
                    THEN /\ sid \in DOMAIN series_counts
                         /\ series_counts[sid] = cs + cp
                    ELSE sid \notin DOMAIN series_counts

\* series 1 with a count of 1 in series_id and of 2 in parents.ids, series
\* 2 in series_id alone
C30_Witness ==
    /\ pc = "plan"
    /\ C30_Count(facet_data.series_id, <<"", <<1>>>>) = 1
    /\ C30_Count(facet_data.parents, <<"VPRS", <<1>>>>) = 2
    /\ C30_Count(facet_data.series_id, <<"", <<2>>>>) = 2
    /\ C30_Count(facet_data.parents, <<"VPRS", <<2>>>>) = 0
    /\ series_counts = (1 :> 2) @@ (2 :> 2)

\* C28 as stated: when a batch pass returns, the warning for the batch is
\* emitted if and only if the number of records the pass yielded differs
\* from the batch's estimate by more than max(10, 5% of the estimate).
C28_Estimate ==
    SumSeq([j \in 1..Len(all_batches[batch_idx + 1]) |->
               series_counts[all_batches[batch_idx + 1][j]]])

C28_Differs(count, estimate) ==
    LET d == IF count > estimate THEN count - estimate ELSE estimate - count
    IN  d > 10 /\ 100 * d > 5 * estimate

C28_WarningIffYieldedDiffers ==
    [][(pc = "end_pass" /\ pass_kind = "batch" /\ pc' # "exit2")
        => ((batch_idx + 1 \in notes')
              <=> C28_Differs(pass_records, C28_Estimate))]_vars

\* C28, amended: when a batch pass returns, the warning for the batch is
\* emitted if and only if the numFound of the pass's last response differs
\* from the batch's estimate by more than max(10, 5% of the estimate); no
\* other warning is added, the files are left as they are, and the harvest
\* goes on to its next pass or to finalisation.
C28_WarningIffNumFoundDiffers ==
    [][(pc = "end_pass" /\ pass_kind = "batch" /\ pc' # "exit2")
        => (/\ (batch_idx + 1 \in notes')
                  <=> C28_Differs(latest_total, C28_Estimate)
            /\ notes' \ {batch_idx + 1} = notes
            /\ pc' \in {"begin_pass", "finalise"}
            /\ final_file' = final_file
            /\ incomplete_file' = incomplete_file)]_vars

\* a warning after a pass that yielded one record more than the last
\* numFound, which is 13 above an estimate of 240
C28_Witness ==
    /\ pc = "begin_pass"
    /\ notes = {1}
    /\ C28_Estimate = 240 /\ latest_total = 253 /\ pass_records = 254

\* sum of the values of a counter
RECURSIVE SumCounter(_)
SumCounter(c) ==
    IF DOMAIN c = {} THEN 0
    ELSE LET k == CHOOSE x \in DOMAIN c : TRUE
         IN  c[k] + SumCounter([x \in (DOMAIN c) \ {k} |-> c[x]])

\* the value of a counter for a key it may lack
CountOf(c, k) == IF k \in DOMAIN c THEN c[k] ELSE 0

\* every record of the input has been processed
ReadToEnd == stats.objects = Len(input_stream)

\* the run of the statistics program is over
StatsEnded == pc \in {"stats_done", "stats_failed"}

\* C21: once every record of the input has been processed, the category
\* histogram sums to the record count (objects), which is the length of
\* the input; each category counts the records that carry it, and Unknown
\* counts the records without a category field; the report shows the same.
C21_CategoriesSumToObjects ==
    ReadToEnd =>
        /\ SumCounter(stats.category) = stats.objects
        /\ \A k \in DOMAIN stats.category :
               stats.category[k] =
                 Cardinality({i \in 1..Len(input_stream) :
                     input_stream[i].category =
                         IF k = "Unknown" THEN <<>> ELSE <<k>>})
        /\ report.printed =>
               /\ report.overall.categories = stats.category
               /\ report.overall.objects = Len(input_stream)

\* a report on two records, one of them without a category field
C21_Witness ==
    /\ pc = "stats_done"
    /\ report.overall.objects = 2
    /\ CountOf(report.overall.categories, "Unknown") = 1

\* C22: when the run is over, the global year histogram, Invalid included,
\* sums to the number of records of the input that bear a timestamp field,
\* Agency records included, whatever the value of the timestamp.
C22_YearsSumToTimestamps ==
    StatsEnded =>
        SumCounter(stats.year) =
            Cardinality({i \in 1..Len(input_stream) :
                            input_stream[i].timestamp # <<>>})

\* C23: the step that prints the report shows, for every agency, each
\* counter as the agency's own direct count (the count accumulated from the
\* records, as it stands before the report is made) plus the sum of that
\* counter over the series linked to the agency (each of which has an entry
\* in the series table), for every year of the year histogram as well; so
\* the displayed item count is at least the direct one, and a series linked
\* to two agencies is counted in both.
RECURSIVE C23_Sum(_, _)
C23_Sum(S, field) ==
    IF S = {} THEN 0
    ELSE LET sid == CHOOSE x \in S : TRUE
         IN  stats.series[sid][field] + C23_Sum(S \ {sid}, field)

RECURSIVE C23_SumYear(_, _)
C23_SumYear(S, year) ==
    IF S = {} THEN 0
    ELSE LET sid == CHOOSE x \in S : TRUE
         IN  CountOf(stats.series[sid].years, year) + C23_SumYear(S \ {sid}, year)

C23_AgencyShowsLinkedSums ==
    [][(~report.printed /\ report'.printed) =>
        /\ DOMAIN report'.agencies = DOMAIN stats.agencies
        /\ \A aid \in DOMAIN stats.agencies :
            LET shown == report'.agencies[aid]
                direct == stats.agencies[aid]
                linked == direct.series
            IN  /\ linked \subseteq DOMAIN stats.series
                /\ \A field \in {"consignments", "iiif_manifests", "images",
                                  "items", "units"} :
                       shown[field] = direct[field] + C23_Sum(linked, field)
                /\ \A year \in DOMAIN shown.years \cup DOMAIN stats.year :
                       CountOf(shown.years, year) =
                           CountOf(direct.years, year)
                           + C23_SumYear(linked, year)
                /\ shown.items >= direct.items]_vars

\* agency VA1 linked to series 5 and 6, agency VA2 to series 5: series 5
\* counts in both
C23_Witness ==
    /\ report.printed
    /\ DOMAIN report.agencies = {VA1, VA2}
    /\ report.agencies[VA1].series = {IdKey(<<"5">>), IdKey(<<"6">>)}
    /\ report.agencies[VA2].series = {IdKey(<<"5">>)}
    /\ report.agencies[VA1].items = 2
    /\ report.agencies[VA2].items = 1
    /\ report.agencies[VA1].years = ("2020" :> 1)

\* C24: processing a record adds one unit, to the overall count and to one
\* bucket of the series table, exactly when it adds one item and the
\* record's barcode and box_barcode are equal (two absent fields are
\* equal), and it adds an item exactly when the record is an Item on which
\* process_object does not raise; so in every bucket of the series table
\* (the Unknown and None buckets, which the report's listing leaves out,
\* included) units <= items, the overall unit count is the sum of the
\* units of the buckets, and the report on one Item of series 5 with equal
\* barcodes lists series 5 with items 1 and units 1.
RECURSIVE C24_Total(_, _)
C24_Total(series, field) ==
    IF DOMAIN series = {} THEN 0
    ELSE LET sid == CHOOSE x \in DOMAIN series : TRUE
         IN  series[sid][field]
             + C24_Total([x \in (DOMAIN series) \ {sid} |-> series[x]], field)

C24_UnitIffItemWithEqualBarcodes ==
    /\ [][(stats.objects < Len(input_stream) /\ stats' # stats) =>
            LET obj == input_stream[stats.objects + 1]
                items == C24_Total(stats'.series, "items")
                           - C24_Total(stats.series, "items")
                units == C24_Total(stats'.series, "units")
                           - C24_Total(stats.series, "units")
            IN  /\ items = IF obj.category = <<"Item">>
                              /\ stats'.objects = stats.objects + 1
                           THEN 1 ELSE 0
                /\ units = IF items = 1 /\ obj.barcode = obj.box_barcode
                           THEN 1 ELSE 0
                /\ stats'.units - stats.units = units
                /\ \A sid \in DOMAIN stats.series :
                       stats'.series[sid].units - stats.series[sid].units
                           \in {0, units}]_vars
    /\ [](/\ \A sid \in DOMAIN stats.series :
                 stats.series[sid].units <= stats.series[sid].items
           /\ stats.units = C24_Total(stats.series, "units")
           /\ report.printed => report.overall.units = stats.units)
    /\ []((/\ report.printed
            /\ Len(input_stream) = 1
            /\ input_stream[1].category = <<"Item">>
            /\ input_stream[1].series_id = << <<"5">> >>
            /\ input_stream[1].barcode # <<>>
            /\ input_stream[1].barcode = input_stream[1].box_barcode)
           => (/\ DOMAIN report.series = {IdKey(<<"5">>)}
               /\ report.series[IdKey(<<"5">>)].items = 1
               /\ report.series[IdKey(<<"5">>)].units = 1))

\* the report on one Item of series 5 whose barcodes are both "A"
C24_Witness ==
    /\ report.printed
    /\ Len(input_stream) = 1
    /\ input_stream[1].category = <<"Item">>
    /\ input_stream[1].series_id = << <<"5">> >>
    /\ input_stream[1].barcode = <<"A">>
    /\ input_stream[1].box_barcode = <<"A">>
    /\ report.series[IdKey(<<"5">>)].units = 1
    /\ report.overall.units = 1

\* C25: a record of a category other than Agency, Consignment and
\* relatedEntity that has no series_id field is accumulated under the
\* Unknown bucket; and when the run is over on an input all of whose
\* records were processed and which holds such a record, the report has
\* been printed, without the Unknown bucket in its series listing.
C25_NoSeriesId(obj) ==
    /\ obj.category \notin {<<"Agency">>, <<"Consignment">>, <<"relatedEntity">>}
    /\ obj.series_id = <<>>

C25_UnknownBucketIsReportedAround ==
    /\ (\E i \in 1..stats.objects : C25_NoSeriesId(input_stream[i]))
           => UnknownKey \in DOMAIN stats.series
    /\ (/\ StatsEnded
        /\ ReadToEnd
        /\ \E i \in 1..Len(input_stream) : C25_NoSeriesId(input_stream[i]))
           => (report.printed /\ UnknownKey \notin DOMAIN report.series)

\* C31: after the facet response is parsed, every value of the parents.ids
\* dimension made of the series tag in upper or lower case and the digits
\* of a series of the requested range has contributed its count: the series
\* has an estimate, and the estimate is not below that count.
C31_TagMatchedInEitherCase ==
    (pc \in {"plan", "exit1"}) =>
        \A i \in 1..Len(facet_data.parents) :
            LET v == facet_data.parents[i][1]
                count == facet_data.parents[i][2]
            IN  (/\ v[1] \in {"VPRS", "vprs"}
                 /\ v[2] # <<>>
                 /\ args.series_min <= PyInt(v[2])
                 /\ (args.series_max = NoMax \/ PyInt(v[2]) <= args.series_max))
                => (/\ PyInt(v[2]) \in DOMAIN series_counts
                    /\ series_counts[PyInt(v[2])] >= count)

\* C32: processing an Agency record adds one to the Agency entry of the
\* category histogram and to the objects counter, and sets the title of
\* the agency whose key is the record's identifier without its spaces (no
\* agency if the identifier is absent or empty), making the agency's entry
\* if there is none; the series table, the year histogram, the unit, IIIF
\* and related-entity counters, every other agency and every other field
\* of that agency are left as they were.
C32_AgencyRecordOnlySetsTitle ==
    [][(stats.objects < Len(input_stream)
        /\ stats' # stats
        /\ input_stream[stats.objects + 1].category = <<"Agency">>)
       => LET obj == input_stream[stats.objects + 1]
              key == IF obj.ident = <<>> THEN <<>>
                     ELSE SelectSeq(obj.ident[1], LAMBDA c : c # " ")
              old == IF key \in DOMAIN stats.agencies
                     THEN stats.agencies[key]
                     ELSE [title |-> "", consignments |-> 0,
                           iiif_manifests |-> 0, images |-> 0, items |-> 0,
                           series |-> {}, units |-> 0, years |-> <<>>]
          IN  /\ stats'.objects = stats.objects + 1
              /\ DOMAIN stats'.category = DOMAIN stats.category \cup {"Agency"}
              /\ \A k \in DOMAIN stats'.category :
                     stats'.category[k] =
                         CountOf(stats.category, k)
                         + (IF k = "Agency" THEN 1 ELSE 0)
              /\ stats'.series = stats.series
              /\ stats'.year = stats.year
              /\ stats'.units = stats.units
              /\ stats'.iiif_manifests = stats.iiif_manifests
              /\ stats'.related_entities = stats.related_entities
              /\ IF key = <<>>
                 THEN stats'.agencies = stats.agencies
                 ELSE /\ DOMAIN stats'.agencies =
                            DOMAIN stats.agencies \cup {key}
                      /\ \A a \in (DOMAIN stats'.agencies) \ {key} :
                             stats'.agencies[a] = stats.agencies[a]
                      /\ stats'.agencies[key] =
                            [old EXCEPT !.title =
                                IF obj.title = <<>> THEN ""
                                ELSE obj.title[1]]]_vars

\* an Item of series 5 linked to agencies VA1 and VA2, then the Agency
\* record "VA 1" that carries a timestamp, a series id and agency ids
C32_Witness ==
    /\ report.printed
    /\ Len(input_stream) = 2
    /\ input_stream[1].agencies_ids = <<VA1, VA2>>
    /\ input_stream[2].category = <<"Agency">>
    /\ input_stream[2].timestamp # <<>>
    /\ input_stream[2].agencies_ids # <<>>
    /\ stats.year = <<>>
    /\ DOMAIN stats.agencies = {VA1, VA2}
    /\ stats.agencies[VA1].series = {IdKey(<<"5">>)}
    /\ stats.agencies[VA2].series = {IdKey(<<"5">>)}

\* C33: in every state of the aggregation, agency a is in the agency set
\* of series s if and only if s is in the series set of agency a.
C33_CrossLinksSymmetric ==
    /\ \A s \in DOMAIN stats.series :
           \A a \in stats.series[s].agencies :
               a \in DOMAIN stats.agencies /\ s \in stats.agencies[a].series
    /\ \A a \in DOMAIN stats.agencies :
           \A s \in stats.agencies[a].series :
               s \in DOMAIN stats.series /\ a \in stats.series[s].agencies

\* two records processed: agency VA1 linked to series 5 and 6, agency VA2
\* to series 5
C33_Witness ==
    /\ stats.objects = 2
    /\ IdKey(<<"5">>) \in DOMAIN stats.series
    /\ IdKey(<<"6">>) \in DOMAIN stats.series
    /\ stats.series[IdKey(<<"5">>)].agencies = {VA1, VA2}
    /\ stats.series[IdKey(<<"6">>)].agencies = {VA1}

\* C36: an iteration of the pagination loop that has written its page
\* either ends the loop (the offset has reached numFound) or leaves the
\* offset strictly greater than it was, also for a page of zero records.
C36_IterationEndsOrAdvances ==
    [][(pc = "write" /\ written = Len(docs) /\ pc' # "exit2")
         => (start' > start \/ ~Less(start', total_docs))]_vars

\* C37: whenever the in-progress file exists it is "[" followed by whole
\* records joined by ",\n": a record at every even position, a separator
\* at every odd position after the first, and a record at the end.
C37_WholeRecordsOnly ==
    incomplete_file.exists =>
        LET data == incomplete_file.data
        IN  /\ Len(data) >= 1
            /\ data[1] = LB
            /\ \A i \in 2..Len(data) :
                   IF i % 2 = 0 THEN IsRecord(data[i])
                   ELSE IsSeparator(data[i])
            /\ (Len(data) = 1 \/ Len(data) % 2 = 0)

\* C38: every pass enters its loop at offset 0 with the configured rows
\* (twice that for relatedEntity), every page request carries those rows,
\* and the PARAMS template keeps start 0 and the configured rows: no step
\* of a pass changes it.
C38_PassesStartFromTemplate ==
    /\ [][(pc = "begin_pass" /\ pc' = "loop")
           => /\ start' = 0
              /\ query_params'.start = PyStr(0)
              /\ query_params'.rows =
                    PyStr(IF pass_kind = "related" THEN 2 * args.rows
                          ELSE args.rows)]_vars
    /\ [][(Paginating /\ pc' \notin {"exit1", "exit2"})
           => PARAMS' = PARAMS]_vars
    /\ [](PARAMS.start = PyStr(0) /\ PARAMS.rows = PyStr(args.rows))
    /\ []((pc = "fetch" /\ caller = "page")
           => url.rows = PyStr(IF pass_kind = "related" THEN 2 * args.rows
                               ELSE args.rows))

\* the first request of the relatedEntity pass, at offset 0 with twice the
\* rows, after earlier passes fetched two records or more
C38_Witness ==
    /\ pc = "fetch" /\ caller = "page" /\ pass_kind = "related"
    /\ url.start = PyStr(0)
    /\ url.rows = PyStr(2 * args.rows)
    /\ Len(fetched) >= 2

\* the content holds the record the earlier run wrote
C39_HasOld(data) == \E i \in 1..Len(data) : data[i] = Dumps(OldDoc)

\* C39: a run that finds an in-progress file of an earlier run cuts it to
\* nothing and then writes "[" when it prepares for writing; every later
\* change of the file starts from a content without the earlier run's
\* record, and no file under the final name holds that record.
C39_LeftoverIsReset ==
    /\ [][(pc = "prepare" /\ pc' = "prepare_write")
           => incomplete_file' = FileOf(<<>>)]_vars
    /\ [][(pc = "prepare_write" /\ pc' = "begin_pass")
           => incomplete_file' = FileOf(<<LB>>)]_vars
    /\ [][(incomplete_file' # incomplete_file /\ pc # "prepare")
           => (~C39_HasOld(incomplete_file.data)
               /\ ~C39_HasOld(incomplete_file'.data))]_vars
    /\ [](~C39_HasOld(final_file.data))

\* a run started over the leftover file that finished with a record of
\* its own
C39_Witness ==
    /\ pc = "done"
    /\ Len(fetched) >= 1
    /\ final_file = FileOf(<<LB>> \o Joined(fetched) \o <<RB>>)

\* C34: the objects handed to process_object are the top-level objects of
\* the input array, in order and each with its own fields only (a scalar
\* under its name, an array as the sequence of its values); when the run is
\* over every object of the array has been handed over once, and the
\* objects counter equals the number of objects of the array.
C34_EveryObjectFoldedOnce ==
    /\ (pc \in {"stats_events", "stats_done", "stats_failed"}) =>
           /\ Len(folded) <= Len(input_stream)
           /\ \A i \in 1..Len(folded) : folded[i] = input_stream[i]
    /\ StatsEnded =>
           (folded = input_stream /\ stats.objects = Len(input_stream))

\* C35: when the 6 attempts of fetch_data have failed, the exception that
\* leaves it is requests.RequestException; the process then ends with the
\* failure message on stderr, exit status 1 and no output file.
C35_ExhaustionIsCaught ==
    /\ (pc = "track_raised") => propagating = "RequestException"
    /\ (pc = "track_exit") =>
           /\ FAILED_MESSAGE \in stderr
           /\ exit_status = <<1>>
           /\ ~output_file.exists

====
